---- MODULE Spec2Model ----
(***************************************************************************)
(* Dialogue policy engine of the travel planner (src/dm.py, src/data.py,   *)
(* src/schema.py).  One conversation: turn by turn, the caller hands an    *)
(* NLU output and the raw utterance to the deterministic engine            *)
(* dm_decide_rule_based, which returns an action and mutates the           *)
(* DialogueState.                                                          *)
(*                                                                         *)
(* Python values are modelled as strings: None is "None", the booleans     *)
(* stored in attributes are "True"/"False", numbers are their decimal      *)
(* text.  A dict is a function whose DOMAIN is its key set.  A booking     *)
(* object is the function from its attribute names (dataclass fields,      *)
(* the completed flag and the methods of the class) to their values, so    *)
(* that hasattr/getattr/setattr are DOMAIN membership, application and     *)
(* EXCEPT.                                                                 *)
(***************************************************************************)
EXTENDS Naturals, Sequences, FiniteSets, TLC

VARIABLES
    state,           \* the DialogueState of the conversation
    nlu_output,      \* the NLU output handed to the engine on this turn
    user_utterance,  \* the raw text of this turn
    llm_response,    \* what the advisory language model does on this turn
    action,          \* what the last call of the engine returned
    pc,              \* "nlu": waiting for the next input, "dm": the engine is called
    turns,           \* number of calls of the engine so far
    completions,     \* the completion actions the engine has returned so far
    call,            \* the last direct call of a function of data.py or of a method
                     \* of IntentQueue, with its result
    intent_queue     \* IntentQueue.pending: the sentences waiting for their turn

vars == <<state, nlu_output, user_utterance, llm_response, action, pc, turns,
          completions, call, intent_queue>>

\* ------------------------------------------------------------------------
\* Bounds
\* ------------------------------------------------------------------------
MaxTurns == 3
\* turns of a conversation that moves from one booking task to another
MaxSwitchTurns == 4
\* calls of mark_completed on one TripContext
MaxCalls == 3
MaxQueueCalls == 4
MaxPending == 3

\* ------------------------------------------------------------------------
\* Python values
\* ------------------------------------------------------------------------
NONE == "None"
PyTrue == "True"
PyFalse == "False"
\* value of an attribute that is still the method defined by the class
METHOD == "<bound method>"
\* marker returned by the model when the call raises an exception
RAISE == "<raise TypeError>"

EmptyDict == [k \in {} |-> NONE]

\* truth value of a Python object (None, False and "" are falsy)
Truthy(v) == v \notin {NONE, PyFalse, ""}

\* dict.get(k) with the default None
Get(d, k) == IF k \in DOMAIN d THEN d[k] ELSE NONE

Range(s) == {s[i] : i \in DOMAIN s}

\* str(value).strip().lower() on the strings the model feeds to it
StripLower(v) ==
    CASE v = " Yes " -> "yes"
      [] v = "NO" -> "no"
      [] OTHER -> v

\* ------------------------------------------------------------------------
\* schema.py
\* ------------------------------------------------------------------------
INTENTS == {"BOOK_FLIGHT", "BOOK_ACCOMMODATION", "BOOK_ACTIVITY", "COMPARE_CITIES", "OOD"}

\* ------------------------------------------------------------------------
\* data.py: booking records
\* ------------------------------------------------------------------------
FlightBooking ==
    [origin |-> NONE, destination |-> NONE, departure_date |-> NONE,
     return_date |-> NONE, num_passengers |-> NONE, budget_level |-> NONE,
     completed |-> PyFalse,
     to_dict |-> METHOD, missing_slots |-> METHOD, update |-> METHOD,
     has_any_data |-> METHOD]

AccommodationBooking ==
    [destination |-> NONE, check_in_date |-> NONE, check_out_date |-> NONE,
     num_guests |-> NONE, budget_level |-> NONE,
     completed |-> PyFalse,
     to_dict |-> METHOD, missing_slots |-> METHOD, update |-> METHOD,
     has_any_data |-> METHOD]

ActivityBooking ==
    [destination |-> NONE, activity_category |-> NONE, budget_level |-> NONE,
     completed |-> PyFalse,
     to_dict |-> METHOD, missing_slots |-> METHOD, update |-> METHOD,
     has_any_data |-> METHOD]

FlightRequired == <<"origin", "destination", "departure_date", "num_passengers", "budget_level">>
AccommodationRequired == <<"destination", "check_in_date", "check_out_date", "num_guests", "budget_level">>
ActivityRequired == <<"destination", "activity_category", "budget_level">>

\* mutant: the required slots are tested for truth, not against None
MissingOf_falsy(self, required) == SelectSeq(required, LAMBDA s : ~Truthy(Get(self, s)))

\* [s for s in required if getattr(self, s, None) is None]
MissingOf(self, required) == SelectSeq(required, LAMBDA s : Get(self, s) = NONE)

FlightBooking_missing_slots(self) == MissingOf(self, FlightRequired)
AccommodationBooking_missing_slots(self) == MissingOf(self, AccommodationRequired)
ActivityBooking_missing_slots(self) == MissingOf(self, ActivityRequired)

\* ------------------------------------------------------------------------
\* data.py: TripContext
\* ------------------------------------------------------------------------
TripContext ==
    [flight |-> FlightBooking, accommodation |-> AccommodationBooking,
     activity |-> ActivityBooking, completed_intents |-> <<>>]

\* the keys of the mapping of TripContext.get_booking
BookingIntents == {"BOOK_FLIGHT", "BOOK_ACCOMMODATION", "BOOK_ACTIVITY"}

\* field of the TripContext that get_booking returns for a booking intent
BookingField(intent) ==
    CASE intent = "BOOK_FLIGHT" -> "flight"
      [] intent = "BOOK_ACCOMMODATION" -> "accommodation"
      [] intent = "BOOK_ACTIVITY" -> "activity"

\* mapping.get(intent); only applied where the result is not None
get_booking(context, intent) == context[BookingField(intent)]

\* mutant: the dates of an accommodation go to the wrong flight dates
CARRYOVER_SLOTS_crossed ==
    [p \in {<<"BOOK_FLIGHT", "BOOK_ACCOMMODATION">>, <<"BOOK_FLIGHT", "BOOK_ACTIVITY">>,
            <<"BOOK_ACCOMMODATION", "BOOK_FLIGHT">>, <<"BOOK_ACCOMMODATION", "BOOK_ACTIVITY">>,
            <<"BOOK_ACTIVITY", "BOOK_FLIGHT">>, <<"BOOK_ACTIVITY", "BOOK_ACCOMMODATION">>} |->
        CASE p = <<"BOOK_FLIGHT", "BOOK_ACCOMMODATION">> ->
                [destination |-> "destination", num_passengers |-> "num_guests",
                 departure_date |-> "check_in_date", return_date |-> "check_out_date",
                 budget_level |-> "budget_level"]
          [] p = <<"BOOK_ACCOMMODATION", "BOOK_FLIGHT">> ->
                [destination |-> "destination", num_guests |-> "num_passengers",
                 check_in_date |-> "return_date", check_out_date |-> "departure_date",
                 budget_level |-> "budget_level"]
          [] OTHER -> [destination |-> "destination", budget_level |-> "budget_level"]]

CARRYOVER_SLOTS ==
    [p \in {<<"BOOK_FLIGHT", "BOOK_ACCOMMODATION">>, <<"BOOK_FLIGHT", "BOOK_ACTIVITY">>,
            <<"BOOK_ACCOMMODATION", "BOOK_FLIGHT">>, <<"BOOK_ACCOMMODATION", "BOOK_ACTIVITY">>,
            <<"BOOK_ACTIVITY", "BOOK_FLIGHT">>, <<"BOOK_ACTIVITY", "BOOK_ACCOMMODATION">>} |->
        CASE p = <<"BOOK_FLIGHT", "BOOK_ACCOMMODATION">> ->
                [destination |-> "destination", num_passengers |-> "num_guests",
                 departure_date |-> "check_in_date", return_date |-> "check_out_date",
                 budget_level |-> "budget_level"]
          [] p = <<"BOOK_ACCOMMODATION", "BOOK_FLIGHT">> ->
                [destination |-> "destination", num_guests |-> "num_passengers",
                 check_in_date |-> "departure_date", check_out_date |-> "return_date",
                 budget_level |-> "budget_level"]
          [] OTHER -> [destination |-> "destination", budget_level |-> "budget_level"]]

get_carryover_slots(from_intent, to_intent) ==
    IF <<from_intent, to_intent>> \in DOMAIN CARRYOVER_SLOTS
    THEN CARRYOVER_SLOTS[<<from_intent, to_intent>>]
    ELSE EmptyDict

\* mutant: a source value is carried when it is truthy, not when it is not None
get_carryover_values_truthy(context, from_intent, to_intent) ==
    IF from_intent \notin BookingIntents THEN EmptyDict
    ELSE LET source_booking == get_booking(context, from_intent)
             slot_map == get_carryover_slots(from_intent, to_intent)
             sources == {s \in DOMAIN slot_map : Truthy(Get(source_booking, s))}
         IN [t \in {slot_map[s] : s \in sources} |->
                source_booking[CHOOSE s \in sources : slot_map[s] = t]]

get_carryover_values(context, from_intent, to_intent) ==
    IF from_intent \notin BookingIntents THEN EmptyDict
    ELSE LET source_booking == get_booking(context, from_intent)
             slot_map == get_carryover_slots(from_intent, to_intent)
             sources == {s \in DOMAIN slot_map : Get(source_booking, s) # NONE}
         IN [t \in {slot_map[s] : s \in sources} |->
                source_booking[CHOOSE s \in sources : slot_map[s] = t]]

\* mutant: the intent is appended to the completed list on every call
mark_completed_appending(context, intent) ==
    LET c1 == IF intent \in BookingIntents
              THEN [context EXCEPT ![BookingField(intent)]["completed"] = PyTrue]
              ELSE context
    IN [c1 EXCEPT !.completed_intents = Append(@, intent)]

mark_completed(context, intent) ==
    LET c1 == IF intent \in BookingIntents
              THEN [context EXCEPT ![BookingField(intent)]["completed"] = PyTrue]
              ELSE context
    IN IF intent \in Range(c1.completed_intents) THEN c1
       ELSE [c1 EXCEPT !.completed_intents = Append(@, intent)]

\* ------------------------------------------------------------------------
\* dm.py: DialogueState
\* ------------------------------------------------------------------------
\* pending_carryover: None and the empty dict are both the empty function
\* (the code tests it only for truthiness and stores only None or a
\* non-empty dict); compare_cities_data: an absent key reads as None.
DialogueState ==
    [context |-> TripContext,
     current_intent |-> NONE,
     pending_carryover |-> EmptyDict,
     awaiting_carryover_response |-> FALSE,
     last_action |-> NONE,
     confirmed |-> FALSE,
     compare_cities_data |-> [city1 |-> NONE, city2 |-> NONE, activity_category |-> NONE]]

\* get_current_booking() is not None
HasCurrentBooking(st) == st.current_intent \in BookingIntents

get_current_booking(st) == get_booking(st.context, st.current_intent)

\* booking.missing_slots() is a call of the attribute's value: it raises
\* TypeError when the instance attribute shadows the method
get_missing_slots_raises(st) ==
    HasCurrentBooking(st) /\ get_current_booking(st)["missing_slots"] # METHOD

get_missing_slots(st) ==
    IF ~HasCurrentBooking(st) THEN <<>>
    ELSE CASE st.current_intent = "BOOK_FLIGHT" ->
                FlightBooking_missing_slots(get_current_booking(st))
           [] st.current_intent = "BOOK_ACCOMMODATION" ->
                AccommodationBooking_missing_slots(get_current_booking(st))
           [] st.current_intent = "BOOK_ACTIVITY" ->
                ActivityBooking_missing_slots(get_current_booking(st))

reset_for_new_intent(st) == [st EXCEPT !.confirmed = FALSE]

\* ------------------------------------------------------------------------
\* dm.py: shared helpers
\* ------------------------------------------------------------------------
_get_complete_action(intent) ==
    CASE intent = "BOOK_FLIGHT" -> "COMPLETE_FLIGHT_BOOKING"
      [] intent = "BOOK_ACCOMMODATION" -> "COMPLETE_ACCOMMODATION_BOOKING"
      [] intent = "BOOK_ACTIVITY" -> "COMPLETE_ACTIVITY_BOOKING"
      [] OTHER -> "ASK_CLARIFICATION"

\* mutant: the value is compared as given, without strip().lower()
_normalize_yes_no_unstripped(value) ==
    IF value = NONE THEN NONE
    ELSE IF value \in {"yes", "y", "si", "sì", "true"} THEN "yes"
    ELSE IF value \in {"no", "n", "false"} THEN "no"
    ELSE NONE

_normalize_yes_no(value) ==
    IF value = NONE THEN NONE
    ELSE LET v == StripLower(value)
         IN IF v \in {"yes", "y", "si", "sì", "true"} THEN "yes"
            ELSE IF v \in {"no", "n", "false"} THEN "no"
            ELSE NONE

\* nlu_output.get("intent")
IntentOf(nlu) == nlu.intent

\* nlu_output.get("slots", {}) or {}
SlotsOf(nlu) == IF nlu.slots_given = "dict" THEN nlu.slots ELSE EmptyDict

\* for slot, value in slots.items():
\*     if value is not None and hasattr(booking, slot): setattr(booking, slot, value)
SetAttrs(booking, slots) ==
    [a \in DOMAIN booking |->
        IF a \in DOMAIN slots /\ slots[a] # NONE THEN slots[a] ELSE booking[a]]

\* mutant: a switch of task forgets the carryover it computed
_update_state_with_nlu_no_carryover(st, nlu) ==
    LET intent == IntentOf(nlu)
        slots == SlotsOf(nlu)
    IN IF intent \notin INTENTS \/ intent \in {"OOD", "COMPARE_CITIES"} THEN st
       ELSE LET switching == Truthy(st.current_intent) /\ st.current_intent # intent
                s1 == IF switching THEN reset_for_new_intent(st) ELSE st
                s2 == [s1 EXCEPT !.current_intent = intent]
            IN [s2 EXCEPT !.context[BookingField(intent)] = SetAttrs(@, slots)]

_update_state_with_nlu(st, nlu) ==
    LET intent == IntentOf(nlu)
        slots == SlotsOf(nlu)
    IN IF intent \notin INTENTS \/ intent \in {"OOD", "COMPARE_CITIES"} THEN st
       ELSE LET switching == Truthy(st.current_intent) /\ st.current_intent # intent
                carryover == get_carryover_values(st.context, st.current_intent, intent)
                s1 == IF switching
                      THEN reset_for_new_intent(
                               [st EXCEPT !.pending_carryover =
                                    IF carryover # EmptyDict THEN carryover ELSE @])
                      ELSE st
                s2 == [s1 EXCEPT !.current_intent = intent]
            IN [s2 EXCEPT !.context[BookingField(intent)] = SetAttrs(@, slots)]

\* ------------------------------------------------------------------------
\* dm.py: dm_decide_rule_based
\* ------------------------------------------------------------------------
REQUEST_MISSING_SLOT(slot) == "REQUEST_MISSING_SLOT(" \o slot \o ")"

\* mutant: the action is returned and last_action is not assigned
Return_unrecorded(st, a) == [state |-> st, action |-> a]

\* state.last_action = a; return a
Return(st, a) == [state |-> [st EXCEPT !.last_action = a], action |-> a]

\* the call raises: the mutations made so far stay, nothing is returned
Raise(st) == [state |-> st, action |-> RAISE]

\* mutant: the turn's slots replace the scratch map instead of being merged
CompareCitiesRule_overwrite(st, slots) ==
    LET data == [s \in {"city1", "city2", "activity_category"} |-> Get(slots, s)]
        s1 == [st EXCEPT !.current_intent = "COMPARE_CITIES",
                         !.compare_cities_data = data]
    IN IF ~Truthy(data["city1"]) THEN Return(s1, REQUEST_MISSING_SLOT("city1"))
       ELSE IF ~Truthy(data["city2"]) THEN Return(s1, REQUEST_MISSING_SLOT("city2"))
       ELSE IF ~Truthy(data["activity_category"])
            THEN Return(s1, REQUEST_MISSING_SLOT("activity_category"))
       ELSE Return(s1, "COMPARE_CITIES_RESULT")

\* mutant: the comparison returns without recording last_action
CompareCitiesRule_unrecorded(st, slots) ==
    LET data == [s \in {"city1", "city2", "activity_category"} |->
                    IF Get(slots, s) # NONE THEN slots[s]
                    ELSE st.compare_cities_data[s]]
        s1 == [st EXCEPT !.current_intent = "COMPARE_CITIES",
                         !.compare_cities_data = data]
    IN IF ~Truthy(data["city1"]) THEN Return_unrecorded(s1, REQUEST_MISSING_SLOT("city1"))
       ELSE IF ~Truthy(data["city2"])
            THEN Return_unrecorded(s1, REQUEST_MISSING_SLOT("city2"))
       ELSE IF ~Truthy(data["activity_category"])
            THEN Return_unrecorded(s1, REQUEST_MISSING_SLOT("activity_category"))
       ELSE Return_unrecorded(s1, "COMPARE_CITIES_RESULT")

\* 3) COMPARE_CITIES
CompareCitiesRule(st, slots) ==
    LET data == [s \in {"city1", "city2", "activity_category"} |->
                    IF Get(slots, s) # NONE THEN slots[s]
                    ELSE st.compare_cities_data[s]]
        s1 == [st EXCEPT !.current_intent = "COMPARE_CITIES",
                         !.compare_cities_data = data]
    IN IF ~Truthy(data["city1"]) THEN Return(s1, REQUEST_MISSING_SLOT("city1"))
       ELSE IF ~Truthy(data["city2"]) THEN Return(s1, REQUEST_MISSING_SLOT("city2"))
       ELSE IF ~Truthy(data["activity_category"])
            THEN Return(s1, REQUEST_MISSING_SLOT("activity_category"))
       ELSE Return(s1, "COMPARE_CITIES_RESULT")

\* mutant: a yes returns the completion action without mark_completed
ConfirmationRule_unmarked(st, slots) ==
    LET conf == _normalize_yes_no(Get(slots, "confirmation"))
    IN IF conf = "no" THEN Return(st, "REQUEST_SLOT_CHANGE")
       ELSE IF conf = "yes"
            THEN Return([st EXCEPT !.confirmed = TRUE],
                        _get_complete_action(st.current_intent))
       ELSE [state |-> st, action |-> "ASK_CONFIRMATION"]

\* 4) last_action == "ASK_CONFIRMATION"
ConfirmationRule(st, slots) ==
    LET conf == _normalize_yes_no(Get(slots, "confirmation"))
    IN IF conf = "no" THEN Return(st, "REQUEST_SLOT_CHANGE")
       ELSE IF conf = "yes"
            THEN Return([st EXCEPT !.confirmed = TRUE,
                                   !.context = mark_completed(@, st.current_intent)],
                        _get_complete_action(st.current_intent))
       ELSE [state |-> st, action |-> "ASK_CONFIRMATION"]

\* 5) last_action == "OFFER_SLOT_CARRYOVER", answer yes or no: the state
\* with which the flow continues
CarryoverAnswer(st, conf) ==
    LET s1 == IF conf = "yes" /\ st.pending_carryover # EmptyDict /\ HasCurrentBooking(st)
              THEN [st EXCEPT !.context[BookingField(st.current_intent)] =
                        [a \in DOMAIN @ |->
                            IF a \in DOMAIN st.pending_carryover
                            THEN st.pending_carryover[a] ELSE @[a]]]
              ELSE st
    IN [s1 EXCEPT !.pending_carryover = EmptyDict,
                  !.awaiting_carryover_response = FALSE]

\* 6) last_action == "REQUEST_SLOT_CHANGE"
SlotChangeRule(st, slots) ==
    LET slot_to_change == Get(slots, "slot_name")
    IN IF Truthy(slot_to_change) /\ HasCurrentBooking(st)
          /\ slot_to_change \in DOMAIN get_current_booking(st)
       THEN Return([st EXCEPT !.context[BookingField(st.current_intent)][slot_to_change] = NONE],
                   REQUEST_MISSING_SLOT(slot_to_change))
       ELSE Return(st, "REQUEST_SLOT_CHANGE")

\* from "Update state now" to the end of the function
UpdateAndDecide(st0, nlu) ==
    LET st == _update_state_with_nlu(st0, nlu)
    IN IF ~Truthy(st.current_intent) THEN Return(st, "ASK_CLARIFICATION")
       ELSE IF get_missing_slots_raises(st) THEN Raise(st)
       ELSE LET missing == get_missing_slots(st)
                considered == st.pending_carryover # EmptyDict
                              /\ ~st.awaiting_carryover_response /\ missing # <<>>
                carryover_useful == \E k \in DOMAIN st.pending_carryover : k \in Range(missing)
                s1 == IF considered /\ ~carryover_useful
                      THEN [st EXCEPT !.pending_carryover = EmptyDict]
                      ELSE st
            IN IF considered /\ carryover_useful
               THEN Return([st EXCEPT !.awaiting_carryover_response = TRUE],
                           "OFFER_SLOT_CARRYOVER")
               ELSE IF missing # <<>> THEN Return(s1, REQUEST_MISSING_SLOT(missing[1]))
               ELSE IF ~s1.confirmed THEN Return(s1, "ASK_CONFIRMATION")
               ELSE Return([s1 EXCEPT !.context = mark_completed(@, s1.current_intent)],
                           _get_complete_action(s1.current_intent))

\* mutant: the pending confirmation (rule 4) is looked at before the intent
dm_decide_rule_based_confirmation_first(st, nlu, utterance) ==
    LET intent == IntentOf(nlu)
        slots == SlotsOf(nlu)
    IN IF st.last_action = "ASK_CONFIRMATION" THEN ConfirmationRule(st, slots)
       ELSE IF intent = "END_DIALOGUE" THEN Return(st, "GOODBYE")
       ELSE IF intent = "OOD" \/ intent = NONE \/ intent \notin INTENTS
            THEN Return(st, "ASK_CLARIFICATION")
       ELSE IF intent = "COMPARE_CITIES" THEN CompareCitiesRule(st, slots)
       ELSE IF st.last_action = "OFFER_SLOT_CARRYOVER"
            THEN LET conf == _normalize_yes_no(Get(slots, "confirmation"))
                 IN IF conf = NONE THEN Return(st, "OFFER_SLOT_CARRYOVER")
                    ELSE UpdateAndDecide(CarryoverAnswer(st, conf), nlu)
       ELSE IF st.last_action = "REQUEST_SLOT_CHANGE" THEN SlotChangeRule(st, slots)
       ELSE UpdateAndDecide(st, nlu)

\* mutant: rule 1 is missing, END_DIALOGUE (no member of INTENTS) is unknown
dm_decide_rule_based_without_rule1(st, nlu, utterance) ==
    LET intent == IntentOf(nlu)
        slots == SlotsOf(nlu)
    IN IF intent = "OOD" \/ intent = NONE \/ intent \notin INTENTS
       THEN Return(st, "ASK_CLARIFICATION")
       ELSE IF intent = "COMPARE_CITIES" THEN CompareCitiesRule(st, slots)
       ELSE IF st.last_action = "ASK_CONFIRMATION" THEN ConfirmationRule(st, slots)
       ELSE IF st.last_action = "OFFER_SLOT_CARRYOVER"
            THEN LET conf == _normalize_yes_no(Get(slots, "confirmation"))
                 IN IF conf = NONE THEN Return(st, "OFFER_SLOT_CARRYOVER")
                    ELSE UpdateAndDecide(CarryoverAnswer(st, conf), nlu)
       ELSE IF st.last_action = "REQUEST_SLOT_CHANGE" THEN SlotChangeRule(st, slots)
       ELSE UpdateAndDecide(st, nlu)

\* mutant: an unclear answer to the carryover offer continues the flow
dm_decide_rule_based_unclear_continues(st, nlu, utterance) ==
    LET intent == IntentOf(nlu)
        slots == SlotsOf(nlu)
    IN IF intent = "END_DIALOGUE" THEN Return(st, "GOODBYE")
       ELSE IF intent = "OOD" \/ intent = NONE \/ intent \notin INTENTS
            THEN Return(st, "ASK_CLARIFICATION")
       ELSE IF intent = "COMPARE_CITIES" THEN CompareCitiesRule(st, slots)
       ELSE IF st.last_action = "ASK_CONFIRMATION" THEN ConfirmationRule(st, slots)
       ELSE IF st.last_action = "OFFER_SLOT_CARRYOVER"
                 /\ _normalize_yes_no(Get(slots, "confirmation")) # NONE
            THEN UpdateAndDecide(
                     CarryoverAnswer(st, _normalize_yes_no(Get(slots, "confirmation"))), nlu)
       ELSE IF st.last_action = "REQUEST_SLOT_CHANGE" THEN SlotChangeRule(st, slots)
       ELSE UpdateAndDecide(st, nlu)

\* user_utterance is a parameter the function never reads
dm_decide_rule_based(st, nlu, utterance) ==
    LET intent == IntentOf(nlu)
        slots == SlotsOf(nlu)
    IN IF intent = "END_DIALOGUE" THEN Return(st, "GOODBYE")
       ELSE IF intent = "OOD" \/ intent = NONE \/ intent \notin INTENTS
            THEN Return(st, "ASK_CLARIFICATION")
       ELSE IF intent = "COMPARE_CITIES" THEN CompareCitiesRule(st, slots)
       ELSE IF st.last_action = "ASK_CONFIRMATION" THEN ConfirmationRule(st, slots)
       ELSE IF st.last_action = "OFFER_SLOT_CARRYOVER"
            THEN LET conf == _normalize_yes_no(Get(slots, "confirmation"))
                 IN IF conf = NONE THEN Return(st, "OFFER_SLOT_CARRYOVER")
                    ELSE UpdateAndDecide(CarryoverAnswer(st, conf), nlu)
       ELSE IF st.last_action = "REQUEST_SLOT_CHANGE" THEN SlotChangeRule(st, slots)
       ELSE UpdateAndDecide(st, nlu)

\* ------------------------------------------------------------------------
\* dm.py: dm_decide with a language model (llm_pipe is not None)
\* ------------------------------------------------------------------------
\* the keys of schema.DM_ACTIONS
DM_ACTIONS ==
    {"REQUEST_MISSING_SLOT", "OFFER_SLOT_CARRYOVER", "ASK_CONFIRMATION", "HANDLE_DENIAL",
     "COMPLETE_FLIGHT_BOOKING", "COMPLETE_ACCOMMODATION_BOOKING",
     "COMPLETE_ACTIVITY_BOOKING", "COMPARE_CITIES_RESULT", "ASK_CLARIFICATION", "GOODBYE"}

\* the strings that match \w+ among the names the model handles
Words ==
    DOMAIN FlightBooking \cup DOMAIN AccommodationBooking \cup DOMAIN ActivityBooking
    \cup {"city1", "city2"}

\* re.match(r"REQUEST_MISSING_SLOT\((\w+)\)", action) and its group 1
MatchesRequest(a) == \E w \in Words : a = REQUEST_MISSING_SLOT(w)
RequestedSlot(a) == CHOOSE w \in Words : a = REQUEST_MISSING_SLOT(w)

\* The answer of the language model is one of
\*   [kind |-> "raise"]                      the call of the pipeline raises
\*   [kind |-> "text", text |-> t]           text without a JSON object
\*   [kind |-> "json", action |-> a, slot |-> s, meta |-> m]
\*                                           text holding the JSON object
\* and _parse_llm_action returns the action string and the meta dict.
_parse_llm_action(response) ==
    IF response.kind = "json"
    THEN IF response.action = "REQUEST_MISSING_SLOT"
         THEN IF response.slot \in Words
              THEN [action |-> REQUEST_MISSING_SLOT(response.slot), meta |-> response.meta]
              ELSE [action |-> "ASK_CLARIFICATION", meta |-> response.meta]
         ELSE IF MatchesRequest(response.action) \/ response.action \in DM_ACTIONS
              THEN [action |-> response.action, meta |-> response.meta]
         ELSE [action |-> "ASK_CLARIFICATION", meta |-> response.meta]
    ELSE IF MatchesRequest(response.text) \/ response.text \in DM_ACTIONS
         THEN [action |-> response.text, meta |-> EmptyDict]
    ELSE [action |-> "ASK_CLARIFICATION", meta |-> EmptyDict]

\* state_for_prompt: the copy of the state with the NLU output applied
StateForPrompt(st, nlu) ==
    LET intent == IntentOf(nlu)
        slots == SlotsOf(nlu)
    IN IF intent = "COMPARE_CITIES"
       THEN [st EXCEPT !.current_intent = "COMPARE_CITIES",
                       !.compare_cities_data =
                            [k \in DOMAIN @ |-> IF Get(slots, k) # NONE THEN slots[k] ELSE @[k]]]
       ELSE IF intent \notin {"OOD", "COMPARE_CITIES", "END_DIALOGUE", NONE}
            THEN _update_state_with_nlu(st, nlu)
       ELSE st

\* the keys of state.to_summary() that dm_decide reads later
to_summary(st) ==
    [current_intent |-> st.current_intent, missing_slots |-> get_missing_slots(st)]

_validate_and_correct_action(st, nlu, state_after, a) ==
    LET intent == IntentOf(nlu)
        slots == SlotsOf(nlu)
        is_ood_or_unknown == intent = "OOD" \/ intent = NONE \/ intent \notin INTENTS
        carryover_must_offer ==
            st.pending_carryover # EmptyDict /\ ~st.awaiting_carryover_response
        conf == _normalize_yes_no(Get(slots, "confirmation"))
        can_request_slot_change ==
            \/ st.last_action = "REQUEST_SLOT_CHANGE"
            \/ st.last_action = "ASK_CONFIRMATION" /\ conf = "no"
        allowed == Range(state_after.missing_slots) \cup {"city1", "city2", "activity_category"}
    IN IF /\ carryover_must_offer /\ ~is_ood_or_unknown /\ intent # "END_DIALOGUE"
          /\ st.last_action \notin {"ASK_CONFIRMATION", "REQUEST_SLOT_CHANGE",
                                     "OFFER_SLOT_CARRYOVER"}
       THEN [state |-> st, action |-> "OFFER_SLOT_CARRYOVER"]
       ELSE IF a = "REQUEST_SLOT_CHANGE" /\ ~can_request_slot_change
            THEN dm_decide_rule_based(st, nlu, "")
       ELSE IF MatchesRequest(a) /\ RequestedSlot(a) \notin allowed
            THEN dm_decide_rule_based(st, nlu, "")
       ELSE [state |-> st, action |-> a]

\* COMPARE_CITIES updates
CompareCitiesEffect(st, intent, slots) ==
    IF intent = "COMPARE_CITIES" \/ st.current_intent = "COMPARE_CITIES"
    THEN [st EXCEPT !.current_intent = "COMPARE_CITIES",
                    !.compare_cities_data =
                         [k \in DOMAIN @ |-> IF Get(slots, k) # NONE THEN slots[k] ELSE @[k]]]
    ELSE st

\* action.startswith("COMPLETE_")
CompletionEffect(st, a) ==
    IF a \in {"COMPLETE_FLIGHT_BOOKING", "COMPLETE_ACCOMMODATION_BOOKING",
              "COMPLETE_ACTIVITY_BOOKING"}
    THEN [st EXCEPT !.confirmed = TRUE,
                    !.context = IF Truthy(st.current_intent)
                                THEN mark_completed(@, st.current_intent) ELSE @]
    ELSE st

\* carryover accept / decline
CarryoverEffect(st, conf) ==
    IF st.last_action = "OFFER_SLOT_CARRYOVER" /\ conf \in {"yes", "no"}
    THEN CarryoverAnswer(st, conf)
    ELSE st

\* slot change
SlotChangeEffect(st, slot_to_change) ==
    IF /\ st.last_action = "REQUEST_SLOT_CHANGE" /\ Truthy(slot_to_change)
       /\ HasCurrentBooking(st)
       /\ slot_to_change \in DOMAIN get_current_booking(st)
    THEN [st EXCEPT !.context[BookingField(st.current_intent)][slot_to_change] = NONE]
    ELSE st

\* if action == "OFFER_SLOT_CARRYOVER": state.awaiting_carryover_response = True
OfferEffect(st, a) ==
    IF a = "OFFER_SLOT_CARRYOVER" THEN [st EXCEPT !.awaiting_carryover_response = TRUE]
    ELSE st

\* the update with the NLU output, then state.last_action = action
NluEffect(st, a, intent, nlu) ==
    [(IF intent \notin {"OOD", "COMPARE_CITIES", "END_DIALOGUE", NONE}
      THEN _update_state_with_nlu(st, nlu)
      ELSE st) EXCEPT !.last_action = a]

_apply_action_side_effects(st, a, nlu, meta) ==
    LET intent == IntentOf(nlu)
        slots == SlotsOf(nlu)
        conf0 == _normalize_yes_no(Get(slots, "confirmation"))
        conf == IF conf0 = NONE THEN Get(meta, "inferred_confirmation") ELSE conf0
        slot_to_change == IF Truthy(Get(slots, "slot_name")) THEN slots["slot_name"]
                          ELSE Get(meta, "inferred_slot_name")
    IN NluEffect(
           OfferEffect(
               SlotChangeEffect(
                   CarryoverEffect(
                       CompletionEffect(CompareCitiesEffect(st, intent, slots), a),
                       conf),
                   slot_to_change),
               a),
           a, intent, nlu)

\* the end of dm_decide: the side effects of the validated action
ApplyValidated(r2, nlu, meta) ==
    IF r2.action = RAISE THEN r2
    ELSE [state |-> _apply_action_side_effects(r2.state, r2.action, nlu, meta),
          action |-> r2.action]

\* the validation of the action the language model or the fallback chose
ValidateChosen(r1, nlu, state_after, meta) ==
    IF r1.action = RAISE THEN r1
    ELSE ApplyValidated(
             _validate_and_correct_action(r1.state, nlu, state_after, r1.action),
             nlu, meta)

\* action and meta from the language model's answer; a raising call is
\* caught and leaves action = "ASK_CLARIFICATION", llm_meta = {}
LlmChoice(response) ==
    IF response.kind = "raise"
    THEN [action |-> "ASK_CLARIFICATION", meta |-> EmptyDict]
    ELSE _parse_llm_action(response)

\* if action == "ASK_CLARIFICATION": the rule-based engine decides
ChosenAction(st, nlu, utterance, parsed) ==
    IF parsed.action = "ASK_CLARIFICATION"
    THEN dm_decide_rule_based(st, nlu, utterance)
    ELSE [state |-> st, action |-> parsed.action]

\* llm_meta is used only when the language model's action is kept
ChosenMeta(parsed) ==
    IF parsed.action = "ASK_CLARIFICATION" THEN EmptyDict ELSE parsed.meta

\* the body of dm_decide once state_for_prompt is built
DecideWith(st, nlu, utterance, parsed, prompt_state) ==
    IF get_missing_slots_raises(st) \/ get_missing_slots_raises(prompt_state)
    THEN Raise(st)
    ELSE ValidateChosen(ChosenAction(st, nlu, utterance, parsed), nlu,
                        to_summary(prompt_state), ChosenMeta(parsed))

\* dm_decide(state, nlu_output, user_utterance, llm_pipe) where the pipeline
\* answers with response; to_summary calls get_missing_slots outside the try
\* response.kind = "none": llm_pipe is None
dm_decide(st, nlu, utterance, response) ==
    IF response.kind = "none" THEN dm_decide_rule_based(st, nlu, utterance)
    ELSE DecideWith(st, nlu, utterance, LlmChoice(response), StateForPrompt(st, nlu))

\* ------------------------------------------------------------------------
\* The turns of one conversation
\* ------------------------------------------------------------------------
\* values the NLU delivers for a slot key
SlotValues(k) ==
    CASE k = "destination" -> {"Paris", "Rome"}
      [] k = "origin" -> {"Milan"}
      [] k = "departure_date" -> {"2026-03-15"}
      [] k = "return_date" -> {"2026-03-22"}
      [] k = "num_passengers" -> {"2"}
      [] k = "budget_level" -> {"medium"}
      [] k = "check_in_date" -> {"2026-03-16"}
      [] k = "check_out_date" -> {"2026-03-20"}
      [] k = "num_guests" -> {"3"}
      [] k = "activity_category" -> {"cultural"}
      [] k = "city1" -> {"Paris", ""}
      [] k = "city2" -> {"London"}
      [] k = "confirmation" -> {"yes", " Yes ", "no", "NO", "maybe"}
      [] k = "slot_name" -> {"destination", "budget_level", "completed",
                             "missing_slots", "city1", ""}
      [] k = "completed" -> {PyTrue}
      [] k = "missing_slots" -> {"x"}

\* the slot names of schema.INTENT_SCHEMAS[intent]["slots"]
INTENT_SLOTS(intent) ==
    CASE intent = "BOOK_FLIGHT" ->
            {"origin", "destination", "departure_date", "return_date",
             "num_passengers", "budget_level"}
      [] intent = "BOOK_ACCOMMODATION" ->
            {"destination", "check_in_date", "check_out_date", "num_guests", "budget_level"}
      [] intent = "BOOK_ACTIVITY" -> {"destination", "activity_category", "budget_level"}
      [] intent = "COMPARE_CITIES" -> {"city1", "city2", "activity_category"}
      [] OTHER -> {}

RequiredOf(intent) ==
    CASE intent = "BOOK_FLIGHT" -> FlightRequired
      [] intent = "BOOK_ACCOMMODATION" -> AccommodationRequired
      [] intent = "BOOK_ACTIVITY" -> ActivityRequired

\* slot dicts with exactly one key out of keys
OneKeyDicts(keys) == UNION {{[x \in {k} |-> v] : v \in SlotValues(k)} : k \in keys}

\* the dict that gives every key of keys its first value
FullDict(keys) == [k \in keys |-> CHOOSE v \in SlotValues(k) : v \notin {"Rome", ""}]

\* d1 | d2
Merge(d1, d2) == [k \in DOMAIN d1 \cup DOMAIN d2 |-> IF k \in DOMAIN d2 THEN d2[k] ELSE d1[k]]

\* keys that are no slot of any task: control keys of the NLU, attributes of
\* the booking objects that are no slots, a slot of another task
OtherKeys == {"confirmation", "slot_name", "completed", "missing_slots", "city1"}

\* the slots nlu_parse returns when the language model names one slot: every
\* allowed slot of the intent is a key, the ones not named are null
CleanSlots(intent) ==
    [k \in INTENT_SLOTS(intent) |-> IF k = "destination" THEN "Rome" ELSE NONE]

SlotDicts(intent) ==
    IF intent \in BookingIntents
    THEN {EmptyDict, FullDict(Range(RequiredOf(intent))), CleanSlots(intent)}
         \cup OneKeyDicts(INTENT_SLOTS(intent) \cup OtherKeys)
         \cup {Merge([confirmation |-> c], [destination |-> "Rome"]) : c \in {"yes", "no"}}
    ELSE IF intent = "COMPARE_CITIES"
    THEN {EmptyDict, FullDict(INTENT_SLOTS(intent))}
         \cup OneKeyDicts(INTENT_SLOTS(intent) \cup {"destination"})
    ELSE {EmptyDict, [confirmation |-> "yes"], [slot_name |-> "destination"],
          [destination |-> "Rome"]}

\* intent values of a turn: None (key absent or null), END_DIALOGUE, a name
\* that is no intent, and the names of schema.INTENTS
IntentValues == INTENTS \cup {NONE, "END_DIALOGUE", "UNKNOWN_INTENT"}

\* the NLU outputs handed to the engine; "slots" may be absent or null
NluOutputs ==
    UNION {{[intent |-> i, slots_given |-> "dict", slots |-> d] : d \in SlotDicts(i)} :
              i \in IntentValues}
    \cup {[intent |-> i, slots_given |-> g, slots |-> EmptyDict] :
            i \in {NONE, "BOOK_FLIGHT"}, g \in {"absent", "null"}}

\* raw texts of a turn (test/evaluation.py, GOLD_DIALOGUES)
UserUtterances == {"Yes, confirm", "No, change the destination"}

CompletionActions ==
    {"COMPLETE_FLIGHT_BOOKING", "COMPLETE_ACCOMMODATION_BOOKING", "COMPLETE_ACTIVITY_BOOKING"}

\* no function of data.py has been called directly
NoCall == [op |-> "none"]

\* the dict {} : no NLU output is waiting for the engine
NoNluOutput == [intent |-> NONE, slots_given |-> "absent", slots |-> EmptyDict]

Init ==
    /\ state = DialogueState
    /\ nlu_output = NoNluOutput
    /\ user_utterance = ""
    /\ action = NONE
    /\ pc = "nlu"
    /\ turns = 0
    /\ completions = {}
    /\ llm_response = NONE
    /\ call = NoCall
    /\ intent_queue = <<>>

\* the next turn of the dialogue: its NLU output and its raw text (in the
\* CLI, the result of nlu_parse for the line read); an exception raised by
\* the engine is not caught by its callers and ends the conversation
DialogueTurn ==
    /\ pc = "nlu"
    /\ action # RAISE
    /\ turns < MaxTurns
    /\ \E nlu \in NluOutputs : nlu_output' = nlu
    /\ \E u \in UserUtterances : user_utterance' = u
    /\ pc' = "dm"
    /\ UNCHANGED <<state, action, turns, completions, llm_response, call,
                   intent_queue>>

\* one call dm_decide_rule_based(state, nlu_output, user_utterance)
DmDecideRuleBased ==
    /\ pc = "dm"
    /\ LET r == dm_decide_rule_based(state, nlu_output, user_utterance)
       IN /\ state' = r.state
          /\ action' = r.action
          /\ completions' = completions \cup ({r.action} \cap CompletionActions)
    /\ nlu_output' = NoNluOutput
    /\ user_utterance' = ""
    /\ pc' = "nlu"
    /\ turns' = turns + 1
    /\ UNCHANGED <<llm_response, call, intent_queue>>

Next == DialogueTurn \/ DmDecideRuleBased

Spec == Init /\ [][Next]_vars

\* ------------------------------------------------------------------------
\* Conversations that move between the booking tasks (test/dm_test.py,
\* rule 9: carryover handling): fewer kinds of turns, one turn more
\* ------------------------------------------------------------------------
SwitchSlotDicts(intent) ==
    {EmptyDict, [destination |-> "Paris"], [budget_level |-> "medium"],
     FullDict(Range(RequiredOf(intent))),
     [confirmation |-> "yes"], [confirmation |-> "no"],
     Merge([confirmation |-> "yes"], [destination |-> "Rome"])}

SwitchNluOutputs ==
    UNION {{[intent |-> i, slots_given |-> "dict", slots |-> d] : d \in SwitchSlotDicts(i)} :
              i \in BookingIntents}
    \cup {[intent |-> i, slots_given |-> "dict", slots |-> EmptyDict] :
            i \in {"OOD", "COMPARE_CITIES"}}

SwitchTurn ==
    /\ pc = "nlu"
    /\ action # RAISE
    /\ turns < MaxSwitchTurns
    /\ \E nlu \in SwitchNluOutputs : nlu_output' = nlu
    /\ user_utterance' = "now I need a hotel"
    /\ pc' = "dm"
    /\ UNCHANGED <<state, action, turns, completions, llm_response, call,
                   intent_queue>>

NextSwitch == SwitchTurn \/ DmDecideRuleBased

SpecSwitch == Init /\ [][NextSwitch]_vars

\* ------------------------------------------------------------------------
\* Conversations decided with a language model that gives no usable answer
\* ------------------------------------------------------------------------
\* the pipeline raises; it answers with prose; it names an action that is
\* not declared
LlmResponses ==
    {[kind |-> "raise"],
     [kind |-> "text", text |-> "I am not sure what to do next."],
     [kind |-> "json", action |-> "BOOK_NOW", slot |-> NONE, meta |-> EmptyDict]}

\* the NLU outputs of these conversations: the turns that move between the
\* tasks, the end of the dialogue, the choice of a slot to change and a key
\* that is an attribute but no slot
LlmNluOutputs ==
    SwitchNluOutputs
    \cup {[intent |-> "END_DIALOGUE", slots_given |-> "dict", slots |-> EmptyDict]}
    \cup {[intent |-> "BOOK_FLIGHT", slots_given |-> "dict", slots |-> d] :
            d \in {[slot_name |-> "destination"], [slot_name |-> "completed"],
                   [missing_slots |-> "x"]}}

\* the next turn, and what the pipeline will answer when it is called
LlmTurn ==
    /\ pc = "nlu"
    /\ action # RAISE
    /\ turns < MaxTurns
    /\ \E nlu \in LlmNluOutputs : nlu_output' = nlu
    /\ user_utterance' = "Yes, confirm"
    /\ \E r \in LlmResponses : llm_response' = r
    /\ pc' = "dm"
    /\ UNCHANGED <<state, action, turns, completions, call, intent_queue>>

\* the call returned r: the state it left and the action it gave back
Returned(r) ==
    /\ state' = r.state
    /\ action' = r.action
    /\ completions' = completions \cup ({r.action} \cap CompletionActions)

\* one call dm_decide(state, nlu_output, user_utterance, llm_pipe)
DmDecide ==
    /\ pc = "dm"
    /\ Returned(dm_decide(state, nlu_output, user_utterance, llm_response))
    /\ nlu_output' = NoNluOutput
    /\ user_utterance' = ""
    /\ llm_response' = NONE
    /\ pc' = "nlu"
    /\ turns' = turns + 1
    /\ UNCHANGED <<call, intent_queue>>

NextLlm == LlmTurn \/ DmDecide

SpecLlm == Init /\ [][NextLlm]_vars

\* ------------------------------------------------------------------------
\* Conversations where the language model answers: dm_decide with llm_pipe
\* set and an answer that names an action
\* ------------------------------------------------------------------------
\* a JSON answer {"action": a, "slot": s} without inferred fields
JsonAnswer(a, s) == [kind |-> "json", action |-> a, slot |-> s, meta |-> EmptyDict]

\* what the language model may answer: the call raises; a declared action
\* that fits or does not fit the turn; a slot request as action and slot; a
\* key of DM_ACTIONS the engine never emits; the key REQUEST_MISSING_SLOT
\* as plain text; an answer that infers a yes
OracleResponses ==
    {[kind |-> "raise"],
     JsonAnswer("ASK_CONFIRMATION", NONE),
     JsonAnswer("COMPLETE_FLIGHT_BOOKING", NONE),
     JsonAnswer("REQUEST_MISSING_SLOT", "destination"),
     JsonAnswer("HANDLE_DENIAL", NONE),
     [kind |-> "text", text |-> "REQUEST_MISSING_SLOT"],
     [kind |-> "json", action |-> "ASK_CONFIRMATION", slot |-> NONE,
      meta |-> [inferred_confirmation |-> "yes"]]}

\* the next turn, and what the language model will answer when it is called
OracleTurn ==
    /\ pc = "nlu"
    /\ action # RAISE
    /\ turns < MaxTurns
    /\ \E nlu \in LlmNluOutputs : nlu_output' = nlu
    /\ user_utterance' = "Yes, confirm"
    /\ \E r \in OracleResponses : llm_response' = r
    /\ pc' = "dm"
    /\ UNCHANGED <<state, action, turns, completions, call, intent_queue>>

NextOracle == OracleTurn \/ DmDecide

SpecOracle == Init /\ [][NextOracle]_vars

\* ------------------------------------------------------------------------
\* Conversations where each call of dm_decide is made with or without a
\* language model (test/dm_test.py runs every case both ways)
\* ------------------------------------------------------------------------
\* llm_pipe=None
NoPipe == [kind |-> "none"]

\* the next turn; dm_decide will be called without a language model, or
\* with one that answers as in OracleResponses
AnyTurn ==
    /\ pc = "nlu"
    /\ action # RAISE
    /\ turns < MaxTurns
    /\ \E nlu \in LlmNluOutputs : nlu_output' = nlu
    /\ user_utterance' = "Yes, confirm"
    /\ \E r \in OracleResponses \cup {NoPipe} : llm_response' = r
    /\ pc' = "dm"
    /\ UNCHANGED <<state, action, turns, completions, call, intent_queue>>

NextAny == AnyTurn \/ DmDecide

SpecAny == Init /\ [][NextAny]_vars

\* ------------------------------------------------------------------------
\* The functions of data.py called directly on one TripContext: one of
\* the three records holds any assignment of its slots (a value, and for
\* the destination also the empty string, or None), the others are new
\* ------------------------------------------------------------------------
\* the slots in set hold their value (the destination may hold the empty
\* string instead), the other slots of the task hold None
SlotAssignments(intent) ==
    {[k \in INTENT_SLOTS(intent) |->
        IF k \notin set THEN NONE
        ELSE IF k = "destination" /\ empty THEN ""
        ELSE FullDict({k})[k]] :
        set \in SUBSET INTENT_SLOTS(intent), empty \in BOOLEAN}

BookingRecords(intent) ==
    {SetAttrs(get_booking(TripContext, intent), d) : d \in SlotAssignments(intent)}

TripContexts ==
    UNION {{[TripContext EXCEPT ![BookingField(intent)] = r] : r \in BookingRecords(intent)} :
              intent \in BookingIntents}

\* task names handed to the functions: the booking tasks, the compare task
\* and a name that is no task
Tasks == BookingIntents \cup {"COMPARE_CITIES", "UNKNOWN_INTENT"}

InitData ==
    /\ \E c \in TripContexts : state = [DialogueState EXCEPT !.context = c]
    /\ nlu_output = NoNluOutput
    /\ user_utterance = ""
    /\ llm_response = NONE
    /\ action = NONE
    /\ pc = "data"
    /\ turns = 0
    /\ completions = {}
    /\ call = NoCall
    /\ intent_queue = <<>>

\* booking.missing_slots() on the record of a task
MissingSlots ==
    /\ pc = "data"
    /\ \E task \in BookingIntents :
          call' = [op |-> "missing_slots", task |-> task,
                   result |-> get_missing_slots([state EXCEPT !.current_intent = task])]
    /\ UNCHANGED <<state, nlu_output, user_utterance, llm_response, action, pc, turns,
                   completions, intent_queue>>

\* context.get_carryover_values(from_intent, to_intent)
GetCarryoverValues ==
    /\ pc = "data"
    /\ \E from_intent \in Tasks, to_intent \in Tasks :
          call' = [op |-> "get_carryover_values", from |-> from_intent, to |-> to_intent,
                   result |-> get_carryover_values(state.context, from_intent, to_intent)]
    /\ UNCHANGED <<state, nlu_output, user_utterance, llm_response, action, pc, turns,
                   completions, intent_queue>>

\* context.mark_completed(intent)
MarkCompleted ==
    /\ pc = "data"
    /\ turns < MaxCalls
    /\ \E intent \in BookingIntents \cup {"COMPARE_CITIES"} :
          /\ state' = [state EXCEPT !.context = mark_completed(@, intent)]
          /\ call' = [op |-> "mark_completed", task |-> intent]
    /\ turns' = turns + 1
    /\ UNCHANGED <<nlu_output, user_utterance, llm_response, action, pc, completions,
                   intent_queue>>

NextData == MissingSlots \/ GetCarryoverValues \/ MarkCompleted

SpecData == InitData /\ [][NextData]_vars

\* ------------------------------------------------------------------------
\* intent_splitter.py: IntentQueue, called method by method
\* ------------------------------------------------------------------------
\* self.pending.extend(sentences)
IntentQueue_add(pending, sentences) == pending \o sentences

\* mutant: pop takes the sentence added last (list.pop() without index)
IntentQueue_pop_last(pending) ==
    IF pending # <<>>
    THEN [pending |-> SubSeq(pending, 1, Len(pending) - 1), result |-> pending[Len(pending)]]
    ELSE [pending |-> pending, result |-> NONE]

\* if self.pending: return self.pending.pop(0); return None
IntentQueue_pop(pending) ==
    IF pending # <<>>
    THEN [pending |-> Tail(pending), result |-> Head(pending)]
    ELSE [pending |-> pending, result |-> NONE]

\* len(self.pending) > 0
IntentQueue_has_pending(pending) == Len(pending) > 0

\* self.pending = []
IntentQueue_clear(pending) == <<>>

\* if self.pending: return self.pending[0]; return None
IntentQueue_peek(pending) == IF pending # <<>> THEN pending[1] ELSE NONE

\* the sentences split_intents hands over
Sentences == {"book a flight to Rome", "find a hotel there", "book a museum tour"}

\* the lists given to add: no sentence, one, or two
SentenceLists ==
    {<<>>} \cup {<<a>> : a \in Sentences} \cup {<<a, b>> : a \in Sentences, b \in Sentences}

\* queue = IntentQueue()
InitQueue ==
    /\ state = DialogueState
    /\ nlu_output = NoNluOutput
    /\ user_utterance = ""
    /\ llm_response = NONE
    /\ action = NONE
    /\ pc = "queue"
    /\ turns = 0
    /\ completions = {}
    /\ call = NoCall
    /\ intent_queue = <<>>

\* what a call of a queue method leaves alone
QueueFrame ==
    UNCHANGED <<state, nlu_output, user_utterance, llm_response, action, pc, completions>>

\* queue.add(sentences)
QueueAdd ==
    /\ pc = "queue"
    /\ turns < MaxQueueCalls
    /\ \E sentences \in SentenceLists :
          /\ Len(intent_queue) + Len(sentences) <= MaxPending
          /\ intent_queue' = IntentQueue_add(intent_queue, sentences)
          /\ call' = [op |-> "add", sentences |-> sentences, result |-> NONE]
    /\ turns' = turns + 1
    /\ QueueFrame

\* queue.pop()
QueuePop ==
    /\ pc = "queue"
    /\ turns < MaxQueueCalls
    /\ intent_queue' = IntentQueue_pop(intent_queue).pending
    /\ call' = [op |-> "pop", sentences |-> <<>>,
                result |-> IntentQueue_pop(intent_queue).result]
    /\ turns' = turns + 1
    /\ QueueFrame

\* queue.peek()
QueuePeek ==
    /\ pc = "queue"
    /\ turns < MaxQueueCalls
    /\ call' = [op |-> "peek", sentences |-> <<>>, result |-> IntentQueue_peek(intent_queue)]
    /\ turns' = turns + 1
    /\ UNCHANGED intent_queue
    /\ QueueFrame

\* queue.has_pending()
QueueHasPending ==
    /\ pc = "queue"
    /\ turns < MaxQueueCalls
    /\ call' = [op |-> "has_pending", sentences |-> <<>>,
                result |-> IntentQueue_has_pending(intent_queue)]
    /\ turns' = turns + 1
    /\ UNCHANGED intent_queue
    /\ QueueFrame

\* queue.clear()
QueueClear ==
    /\ pc = "queue"
    /\ turns < MaxQueueCalls
    /\ intent_queue' = IntentQueue_clear(intent_queue)
    /\ call' = [op |-> "clear", sentences |-> <<>>, result |-> NONE]
    /\ turns' = turns + 1
    /\ QueueFrame

NextQueue == QueueAdd \/ QueuePop \/ QueuePeek \/ QueueHasPending \/ QueueClear

SpecQueue == InitQueue /\ [][NextQueue]_vars

\* ------------------------------------------------------------------------
\* The command-line loop: main.py run(use_splitter=True, use_llm_dm=False)
\* ------------------------------------------------------------------------

\* what the language model of nlu_parse gives back: the pipeline raises, the
\* text holds no JSON object, or a JSON object with an intent (None: key
\* absent or null) and a dict of slots
NluAnswers ==
    {[kind |-> "raise"], [kind |-> "text"]}
    \cup {[kind |-> "json", intent |-> i, slots |-> EmptyDict] :
            i \in {NONE, "END_DIALOGUE", "OOD", "BOOK_FLIGHT", "BOOK_ACCOMMODATION"}}
    \cup {[kind |-> "json", intent |-> "END_DIALOGUE", slots |-> [confirmation |-> "yes"]]}
    \cup {[kind |-> "json", intent |-> i, slots |-> d] :
            i \in {"BOOK_FLIGHT", "BOOK_ACCOMMODATION"},
            d \in {[destination |-> "Rome"], [confirmation |-> "yes"],
                   [confirmation |-> "no"], [slot_name |-> "destination"],
                   [destination |-> "Rome", city1 |-> "Paris"]}}
    \cup {[kind |-> "json", intent |-> "BOOK_FLIGHT",
           slots |-> FullDict(Range(FlightRequired))]}

\* clean_slots of nlu_parse
nlu_clean_slots(raw_slots, allowed_slots) ==
    IF "confirmation" \in DOMAIN raw_slots
    THEN [k \in {"confirmation"} \cup (allowed_slots \cap DOMAIN raw_slots) |-> raw_slots[k]]
    ELSE IF "slot_name" \in DOMAIN raw_slots
    THEN [k \in {"slot_name"} \cup (allowed_slots \cap DOMAIN raw_slots) |-> raw_slots[k]]
    ELSE [k \in allowed_slots |-> Get(raw_slots, k)]

\* nlu_parse(pipe, user_input, ...) where the pipeline answers answer: an
\* intent that is not in schema.INTENTS becomes OOD
nlu_parse(answer) ==
    IF answer.kind # "json"
    THEN [intent |-> "OOD", slots_given |-> "dict", slots |-> EmptyDict]
    ELSE LET intent == IF answer.intent \in INTENTS THEN answer.intent ELSE "OOD"
         IN [intent |-> intent, slots_given |-> "dict",
             slots |-> nlu_clean_slots(answer.slots, INTENT_SLOTS(intent))]

\* the loop runs at most this many turns
MaxCliTurns == 3

\* the lines the user types, already stripped and not empty
CliLines ==
    {"bye", "I need a flight to Rome", "Rome and also Paris",
     "Book a flight to Rome and also find a hotel there"}

\* len(user_input.split())
WordCount(user_input) ==
    CASE user_input = "bye" -> 1
      [] user_input = "I need a flight to Rome" -> 6
      [] user_input = "Rome and also Paris" -> 4
      [] user_input = "Book a flight to Rome and also find a hotel there" -> 11

\* has_multiple_intents(pipe, user_input): a marker such as " and also "
\* occurs in the line, or the line has two sentences longer than 10 characters
has_multiple_intents(user_input) ==
    user_input \in {"Rome and also Paris",
                    "Book a flight to Rome and also find a hotel there"}

\* what extract_json_array makes of the splitter model's text: None (the
\* pipeline raised, no array, an item that is no string) or a list of strings
SplitAnswers ==
    {[array |-> FALSE, sentences |-> <<>>]}
    \cup {[array |-> TRUE, sentences |-> s] :
            s \in {<<>>, <<"book a flight to Rome">>,
                   <<"book a flight to Rome", "find a hotel there">>,
                   <<"book a flight to Rome", "find a hotel there",
                     "book a museum tour">>}}

\* split_intents(pipe, user_input) where the model answers answer
split_intents(user_input, answer) ==
    IF WordCount(user_input) <= 5 THEN [current |-> user_input, pending |-> <<>>]
    ELSE IF answer.array /\ Len(answer.sentences) > 0
    THEN [current |-> answer.sentences[1], pending |-> Tail(answer.sentences)]
    ELSE [current |-> user_input, pending |-> <<>>]

\* update_state_after_action(state, action)
update_state_after_action(r) ==
    IF r.action \in CompletionActions /\ Truthy(r.state.current_intent)
    THEN [r EXCEPT !.state.context = mark_completed(@, r.state.current_intent)]
    ELSE r

\* state = DialogueState(); intent_queue = IntentQueue(); the loop waits for
\* input
InitCli ==
    /\ state = DialogueState
    /\ nlu_output = NoNluOutput
    /\ user_utterance = ""
    /\ llm_response = NONE
    /\ action = NONE
    /\ pc = "input"
    /\ turns = 0
    /\ completions = {}
    /\ call = NoCall
    /\ intent_queue = <<>>

\* user = input("User: ").strip(): the user types a line
CliInput ==
    /\ pc = "input"
    /\ action # RAISE
    /\ turns < MaxCliTurns
    /\ \E user \in CliLines : user_utterance' = user
    /\ pc' = "split"
    /\ UNCHANGED <<state, nlu_output, llm_response, action, turns, completions, call,
                   intent_queue>>

\* the choice of current_input: a pending sentence if the queue holds one,
\* else the line or the first sentence of its split
CliSplit ==
    /\ pc = "split"
    /\ IF IntentQueue_has_pending(intent_queue)
       THEN /\ user_utterance' = IntentQueue_pop(intent_queue).result
            /\ intent_queue' = IntentQueue_pop(intent_queue).pending
       ELSE IF has_multiple_intents(user_utterance)
       THEN \E answer \in SplitAnswers :
               /\ user_utterance' = split_intents(user_utterance, answer).current
               /\ intent_queue' =
                     IF split_intents(user_utterance, answer).pending # <<>>
                     THEN IntentQueue_add(intent_queue,
                                          split_intents(user_utterance, answer).pending)
                     ELSE intent_queue
       ELSE UNCHANGED <<user_utterance, intent_queue>>
    /\ pc' = "parse"
    /\ UNCHANGED <<state, nlu_output, llm_response, action, turns, completions, call>>

\* nlu_output = nlu_parse(pipe, current_input, system_prompt, ...)
CliNlu ==
    /\ pc = "parse"
    /\ \E answer \in NluAnswers :
          /\ nlu_output' = nlu_parse(answer)
          /\ call' = [op |-> "nlu_parse", answer |-> answer]
    /\ pc' = "dm"
    /\ UNCHANGED <<state, user_utterance, llm_response, action, turns, completions,
                   intent_queue>>

\* action = dm_decide(state, nlu_output, current_input, llm_pipe=None);
\* update_state_after_action(state, action); a GOODBYE ends the loop
CliDecide ==
    /\ pc = "dm"
    /\ Returned(update_state_after_action(dm_decide(state, nlu_output, user_utterance,
                                                    NoPipe)))
    /\ pc' = IF action' = "GOODBYE" THEN "done" ELSE "input"
    /\ nlu_output' = NoNluOutput
    /\ user_utterance' = ""
    /\ turns' = turns + 1
    /\ UNCHANGED <<llm_response, call, intent_queue>>

NextCli == CliInput \/ CliSplit \/ CliNlu \/ CliDecide

SpecCli == InitCli /\ [][NextCli]_vars

\* ------------------------------------------------------------------------
\* A cooperative user (test/pipeline_evaluation.py,
\* generate_template_dialogue_incremental): one booking task from a fresh
\* state, every turn answers the engine's last question
\* ------------------------------------------------------------------------

\* the dialogue is followed for at most this many turns
MaxCoopTurns == 8

\* the slot dicts that give a value to slot, alone or with one more slot of
\* the task
SupplyingDicts(task, slot) ==
    {Merge(d, e) : d \in OneKeyDicts(INTENT_SLOTS(task) \ {slot}) \cup {EmptyDict},
                   e \in OneKeyDicts({slot})}

\* what the cooperative user says after the engine's last action
CoopSlotDicts(task, last) ==
    IF last = "ASK_CONFIRMATION" THEN {[confirmation |-> "yes"], [confirmation |-> " Yes "]}
    ELSE IF \E s \in INTENT_SLOTS(task) : last = REQUEST_MISSING_SLOT(s)
    THEN SupplyingDicts(task, CHOOSE s \in INTENT_SLOTS(task) : last = REQUEST_MISSING_SLOT(s))
    ELSE {EmptyDict, FullDict(Range(RequiredOf(task)))} \cup OneKeyDicts(INTENT_SLOTS(task))

\* the next turn of the cooperative user, until the task is completed
CoopTurn ==
    /\ pc = "nlu"
    /\ action # RAISE
    /\ completions = {}
    /\ turns < MaxCoopTurns
    /\ \E task \in BookingIntents :
          /\ state.current_intent \in {NONE, task}
          /\ \E d \in CoopSlotDicts(task, state.last_action) :
                nlu_output' = [intent |-> task, slots_given |-> "dict", slots |-> d]
    /\ \E u \in UserUtterances : user_utterance' = u
    /\ pc' = "dm"
    /\ UNCHANGED <<state, action, turns, completions, llm_response, call, intent_queue>>

NextCoop == CoopTurn \/ DmDecideRuleBased

SpecCoop == Init /\ [][NextCoop]_vars

\* ------------------------------------------------------------------------
\* Vocabulary of the properties
\* ------------------------------------------------------------------------
\* A step with pc = "dm" is one call of the engine: state and nlu_output are
\* the arguments of the call, state' is the state it leaves and action' is
\* what it returns.
TurnIntent == nlu_output.intent
TurnSlots == IF nlu_output.slots_given = "dict" THEN nlu_output.slots ELSE EmptyDict
TurnSlot(k) == IF k \in DOMAIN TurnSlots THEN TurnSlots[k] ELSE NONE

BookingTurn == pc = "dm" /\ TurnIntent \in BookingIntents

\* the three booking records of a state, completed flags included
Records(st) == [f \in {"flight", "accommodation", "activity"} |-> st.context[f]]

CompletionOf(task) ==
    CASE task = "BOOK_FLIGHT" -> "COMPLETE_FLIGHT_BOOKING"
      [] task = "BOOK_ACCOMMODATION" -> "COMPLETE_ACCOMMODATION_BOOKING"
      [] task = "BOOK_ACTIVITY" -> "COMPLETE_ACTIVITY_BOOKING"

\* confirmation values that normalize to yes and to no
YesAnswers == {"yes", " Yes "}
NoAnswers == {"no", "NO"}

\* the declared order of the required slots and the declared slots of a task
DeclaredRequired(task) ==
    CASE task = "BOOK_FLIGHT" ->
            <<"origin", "destination", "departure_date", "num_passengers", "budget_level">>
      [] task = "BOOK_ACCOMMODATION" ->
            <<"destination", "check_in_date", "check_out_date", "num_guests", "budget_level">>
      [] task = "BOOK_ACTIVITY" -> <<"destination", "activity_category", "budget_level">>

DeclaredSlots(task) ==
    Range(DeclaredRequired(task)) \cup (IF task = "BOOK_FLIGHT" THEN {"return_date"} ELSE {})

\* the required slots of the active record of st that hold no value
MissingRequired(st) ==
    SelectSeq(DeclaredRequired(st.current_intent),
              LAMBDA s : st.context[BookingField(st.current_intent)][s] = NONE)

Request(slot) == "REQUEST_MISSING_SLOT(" \o slot \o ")"

\* the turn is not answered by rule 4, 5 (unclear answer) or 6
PassesRules4To6 ==
    /\ state.last_action \notin {"ASK_CONFIRMATION", "REQUEST_SLOT_CHANGE"}
    /\ state.last_action = "OFFER_SLOT_CARRYOVER"
            => TurnSlot("confirmation") \in YesAnswers \cup NoAnswers

\* ------------------------------------------------------------------------
\* C1  Confirmation loop.  In every call with last_action = ASK_CONFIRMATION
\* and a booking intent: a confirmation that normalizes to yes returns the
\* completion action of the active task, sets confirmed and sets the
\* active record's completed flag; one that normalizes to no returns
\* REQUEST_SLOT_CHANGE and leaves every booking record unchanged.
\* ------------------------------------------------------------------------
C1_ConfirmationLoop ==
    [][(BookingTurn /\ state.last_action = "ASK_CONFIRMATION") =>
          /\ TurnSlot("confirmation") \in YesAnswers =>
                /\ state.current_intent \in BookingIntents
                /\ action' = CompletionOf(state.current_intent)
                /\ state'.confirmed
                /\ state'.context[BookingField(state.current_intent)]["completed"] = PyTrue
                /\ state'.current_intent = state.current_intent
          /\ TurnSlot("confirmation") \in NoAnswers =>
                /\ action' = "REQUEST_SLOT_CHANGE"
                /\ Records(state') = Records(state)]_vars

\* an accommodation booking confirmed on the second turn
C1_Witness ==
    /\ pc = "nlu" /\ turns = 2
    /\ action = "COMPLETE_ACCOMMODATION_BOOKING"
    /\ state.confirmed
    /\ state.context.accommodation["completed"] = PyTrue

\* ------------------------------------------------------------------------
\* C2  Confirmation gate.  A completion action is returned only when its
\* task is the active task, the record has no missing required slot and
\* confirmed is true; and a booking turn that reaches the end of the rules
\* with no missing required slot and confirmed = false returns
\* ASK_CONFIRMATION and does not mark the record completed.
\* ------------------------------------------------------------------------
C2_ConfirmationGate ==
    [][pc = "dm" =>
          /\ action' \in CompletionActions =>
                /\ state'.current_intent \in BookingIntents
                /\ action' = CompletionOf(state'.current_intent)
                /\ MissingRequired(state') = <<>>
                /\ state'.confirmed
          /\ (/\ TurnIntent \in BookingIntents
              /\ PassesRules4To6
              /\ action' # RAISE
              /\ MissingRequired(state') = <<>>
              /\ ~state'.confirmed) =>
                /\ action' = "ASK_CONFIRMATION"
                /\ state'.context[BookingField(state'.current_intent)]["completed"]
                       = state.context[BookingField(state'.current_intent)]["completed"]]_vars

\* ------------------------------------------------------------------------
\* C3  Completed-flag invariant.  A booking record's completed flag is true
\* only if the engine has already returned that task's completion action.
\* ------------------------------------------------------------------------
C3_CompletedOnlyAfterCompletion ==
    \A task \in BookingIntents :
        Truthy(state.context[BookingField(task)]["completed"])
            => CompletionOf(task) \in completions

\* ------------------------------------------------------------------------
\* C4  Missing-slot request.  A booking turn that passes rules 1-6 and is
\* not answered with a carryover offer returns REQUEST_MISSING_SLOT(s), s
\* the first missing required slot of the active record in the declared
\* order, whenever the record has a missing required slot.
\* ------------------------------------------------------------------------
C4_MissingSlotRequest ==
    [][(/\ BookingTurn
        /\ PassesRules4To6
        /\ action' # "OFFER_SLOT_CARRYOVER"
        /\ MissingRequired(state') # <<>>) =>
          action' = Request(MissingRequired(state')[1])]_vars

\* ------------------------------------------------------------------------
\* C5  The engine never raises: every call returns an action.
\* ------------------------------------------------------------------------
C5_NeverRaises == action # RAISE

C7_EndDialogue ==
    [][(pc = "dm" /\ TurnIntent = "END_DIALOGUE") =>
          /\ action' = "GOODBYE"
          /\ state'.last_action = "GOODBYE"
          /\ Records(state') = Records(state)
          /\ state'.current_intent = state.current_intent
          /\ state'.confirmed = state.confirmed
          /\ state'.pending_carryover = state.pending_carryover
          /\ state'.compare_cities_data = state.compare_cities_data]_vars

\* END_DIALOGUE as the answer to a carryover offer
C7_Witness ==
    /\ pc = "nlu"
    /\ action = "GOODBYE" /\ state.last_action = "GOODBYE"
    /\ state.awaiting_carryover_response
    /\ state.pending_carryover # EmptyDict
    /\ state.current_intent \in BookingIntents

\* ------------------------------------------------------------------------
\* C8  Compare-cities branch.  Every turn with intent COMPARE_CITIES makes
\* COMPARE_CITIES the active task, merges the non-null city1, city2 and
\* activity_category of the turn into the scratch map and returns
\* REQUEST_MISSING_SLOT for the first of the three that is missing, and
\* COMPARE_CITIES_RESULT exactly when none is missing.
\* ------------------------------------------------------------------------
CompareSlots == <<"city1", "city2", "activity_category">>

MergedCompareData ==
    [s \in Range(CompareSlots) |->
        IF TurnSlot(s) # NONE THEN TurnSlot(s) ELSE state.compare_cities_data[s]]

CompareCitiesTurn(IsMissing(_)) ==
    (pc = "dm" /\ TurnIntent = "COMPARE_CITIES") =>
        LET missing == SelectSeq(CompareSlots, LAMBDA s : IsMissing(MergedCompareData[s]))
        IN /\ state'.current_intent = "COMPARE_CITIES"
           /\ state'.compare_cities_data = MergedCompareData
           /\ missing # <<>> => action' = Request(missing[1])
           /\ missing = <<>> <=> action' = "COMPARE_CITIES_RESULT"

IsNull(v) == v = NONE
IsNullOrEmpty(v) == v \in {NONE, ""}

C9_LexicalFallback ==
    [][(/\ BookingTurn
        /\ state.last_action = "ASK_CONFIRMATION"
        /\ state.current_intent \in BookingIntents
        /\ TurnSlot("confirmation") = NONE) =>
          /\ user_utterance = "Yes, confirm"
                => action' = CompletionOf(state.current_intent)
          /\ user_utterance = "No, change the destination"
                => action' = "REQUEST_SLOT_CHANGE"]_vars

\* ------------------------------------------------------------------------
\* C10  Slot-change rule.  With last_action = REQUEST_SLOT_CHANGE: if the
\* turn's slot_name is a slot of the active record, exactly that slot
\* becomes null and REQUEST_MISSING_SLOT(slot_name) is returned; if it is
\* absent or no slot of the active record, no record changes and
\* REQUEST_SLOT_CHANGE is returned again.
\* ------------------------------------------------------------------------
C10_SlotChange ==
    [][(/\ BookingTurn
        /\ state.last_action = "REQUEST_SLOT_CHANGE"
        /\ state.current_intent \in BookingIntents) =>
          LET slot_name == TurnSlot("slot_name")
              active == BookingField(state.current_intent)
          IN IF slot_name \in DeclaredSlots(state.current_intent)
             THEN /\ action' = Request(slot_name)
                  /\ Records(state') =
                        [Records(state) EXCEPT ![active][slot_name] = NONE]
             ELSE /\ action' = "REQUEST_SLOT_CHANGE"
                  /\ Records(state') = Records(state)]_vars

\* ------------------------------------------------------------------------
\* C11  Unrecognized slot keys are ignored.  When a booking turn applies its
\* slot values to the record of its task, every attribute of the record
\* that is no declared slot of the task (the completed flag included), and
\* every slot for which the turn gives no value or null, keeps its value.
\* (Turns answered by rules 4-6 and turns that end in the completion of
\* the booking are left aside: they write the record by other means.)
\* ------------------------------------------------------------------------
C11_UnrecognizedKeysIgnored ==
    [][(/\ BookingTurn
        /\ state.last_action \notin {"ASK_CONFIRMATION", "REQUEST_SLOT_CHANGE",
                                      "OFFER_SLOT_CARRYOVER"}
        /\ action' \notin CompletionActions) =>
          LET old == state.context[BookingField(TurnIntent)]
              new == state'.context[BookingField(TurnIntent)]
          IN \A a \in DOMAIN old :
                (a \notin DeclaredSlots(TurnIntent) \/ TurnSlot(a) = NONE)
                    => new[a] = old[a]]_vars

\* ------------------------------------------------------------------------
\* C12  Every REQUEST_MISSING_SLOT(p) the engine returns names a declared
\* slot of the active booking task, or one of city1, city2,
\* activity_category when the active task is COMPARE_CITIES.
\* ------------------------------------------------------------------------
\* what the engine returns when it returns no REQUEST_MISSING_SLOT(...)
NoRequest ==
    {NONE, RAISE, "GOODBYE", "ASK_CLARIFICATION", "OFFER_SLOT_CARRYOVER",
     "ASK_CONFIRMATION", "REQUEST_SLOT_CHANGE", "COMPARE_CITIES_RESULT",
     "COMPLETE_FLIGHT_BOOKING", "COMPLETE_ACCOMMODATION_BOOKING",
     "COMPLETE_ACTIVITY_BOOKING"}

C12_RequestedSlotDeclared ==
    \/ action \in NoRequest
    \/ /\ state.current_intent \in BookingIntents
       /\ \E p \in DeclaredSlots(state.current_intent) : action = Request(p)
    \/ /\ state.current_intent = "COMPARE_CITIES"
       /\ \E p \in {"city1", "city2", "activity_category"} : action = Request(p)

\* ------------------------------------------------------------------------
\* C13  Carryover offer ordering.  A turn that switches from one booking
\* task to another, where the computed carryover has a target field among
\* the missing required slots of the new record, is not answered with a
\* REQUEST_MISSING_SLOT: the offer comes before any request for the new
\* task.
\* ------------------------------------------------------------------------
\* the turn reaches the task update directly and changes the booking task
SwitchingTurn ==
    /\ BookingTurn
    /\ state.last_action \notin {"ASK_CONFIRMATION", "REQUEST_SLOT_CHANGE",
                                  "OFFER_SLOT_CARRYOVER"}
    /\ state.current_intent \in BookingIntents
    /\ TurnIntent # state.current_intent

C13_OfferBeforeRequest ==
    [][(/\ SwitchingTurn
        /\ \E k \in DOMAIN get_carryover_values(state.context, state.current_intent,
                                                 TurnIntent) :
              k \in Range(MissingRequired(state'))) =>
          action' \in NoRequest]_vars

\* ------------------------------------------------------------------------
\* C14  Carryover gating.  Step 9 returns OFFER_SLOT_CARRYOVER, and sets the
\* offer-in-progress flag, only when the pending carryover is non-empty, no
\* offer is in progress and a pending target field is a missing required
\* slot; and whenever a turn reaches step 9 with a non-empty pending
\* carryover none of whose target fields is a missing required slot, the
\* pending carryover is empty after the turn.
\* ------------------------------------------------------------------------
\* the state with which the turn arrives at step 9: after the answer to an
\* offer (step 5) and the slot/task update (step 7)
AtStep9 ==
    _update_state_with_nlu(
        IF state.last_action = "OFFER_SLOT_CARRYOVER"
        THEN CarryoverAnswer(state, _normalize_yes_no(TurnSlot("confirmation")))
        ELSE state,
        nlu_output)

C14_CarryoverGating ==
    [][(BookingTurn /\ PassesRules4To6 /\ action' # RAISE) =>
          LET useful == \E k \in DOMAIN AtStep9.pending_carryover :
                            k \in Range(MissingRequired(AtStep9))
          IN /\ action' = "OFFER_SLOT_CARRYOVER" =>
                    /\ AtStep9.pending_carryover # EmptyDict
                    /\ ~AtStep9.awaiting_carryover_response
                    /\ useful
                    /\ state'.awaiting_carryover_response
             /\ (AtStep9.pending_carryover # EmptyDict /\ ~useful) =>
                    state'.pending_carryover = EmptyDict]_vars

\* ------------------------------------------------------------------------
\* C15  Answering a carryover offer.  With last_action =
\* OFFER_SLOT_CARRYOVER, a yes leaves every pending entry that is a field of
\* the active record on that record, a no leaves the record as it was; in
\* both cases the pending carryover is empty and the offer-in-progress flag
\* is false after the turn, and the turn returns REQUEST_MISSING_SLOT of the
\* first missing slot of the active record, else ASK_CONFIRMATION.
\* ------------------------------------------------------------------------
C15_CarryoverAnswer ==
    [][(/\ BookingTurn
        /\ state.last_action = "OFFER_SLOT_CARRYOVER"
        /\ state.current_intent \in BookingIntents
        /\ TurnSlot("confirmation") \in YesAnswers \cup NoAnswers) =>
          LET active == BookingField(state.current_intent)
              old == state.context[active]
              new == state'.context[active]
          IN /\ TurnSlot("confirmation") \in YesAnswers =>
                    \A k \in DOMAIN state.pending_carryover \cap DOMAIN old :
                        new[k] = state.pending_carryover[k]
             /\ TurnSlot("confirmation") \in NoAnswers => new = old
             /\ state'.pending_carryover = EmptyDict
             /\ ~state'.awaiting_carryover_response
             /\ action' = IF MissingRequired(state') # <<>>
                          THEN Request(MissingRequired(state')[1])
                          ELSE "ASK_CONFIRMATION"]_vars

\* ------------------------------------------------------------------------
\* C16  get_carryover_values(from, to) returns exactly the map
\* {target field: value} over the (source field, target field) pairs of the
\* table entry (from, to) whose source field is not None in the record of
\* from; it returns the empty map when the pair is not in the table; and it
\* changes no record.
\* ------------------------------------------------------------------------
\* the Carryover Table: the pairs of tasks with an entry
TablePairs ==
    {<<"BOOK_FLIGHT", "BOOK_ACCOMMODATION">>, <<"BOOK_FLIGHT", "BOOK_ACTIVITY">>,
     <<"BOOK_ACCOMMODATION", "BOOK_FLIGHT">>, <<"BOOK_ACCOMMODATION", "BOOK_ACTIVITY">>,
     <<"BOOK_ACTIVITY", "BOOK_FLIGHT">>, <<"BOOK_ACTIVITY", "BOOK_ACCOMMODATION">>}

C16_CarryoverValues ==
    [][(call'.op = "get_carryover_values") =>
          /\ state' = state
          /\ IF <<call'.from, call'.to>> \in TablePairs
             THEN LET entry == CARRYOVER_SLOTS[<<call'.from, call'.to>>]
                      record == state.context[BookingField(call'.from)]
                      set == {f \in DOMAIN entry : record[f] # NONE}
                  IN /\ DOMAIN call'.result = {entry[f] : f \in set}
                     /\ \A f \in set : call'.result[entry[f]] = record[f]
             ELSE call'.result = EmptyDict]_vars

\* a flight with an empty destination and a return date only, carried to the
\* accommodation
C16_Witness ==
    /\ call.op = "get_carryover_values"
    /\ call.from = "BOOK_FLIGHT" /\ call.to = "BOOK_ACCOMMODATION"
    /\ state.context.flight["origin"] = "Milan"
    /\ call.result = [destination |-> "", check_out_date |-> "2026-03-22"]

\* ------------------------------------------------------------------------
\* C17  Carryover symmetry.  For every ordered pair of distinct booking
\* tasks (A, B) the table entry (B, A) is the inverse mapping of the entry
\* (A, B); a value carried from field f of A to B and carried back from B
\* lands on field f of A with the same value.
\* ------------------------------------------------------------------------
\* what get_carryover_values(B, A) returns once the values carried from A
\* have been written to the record of B
CarriedBack(context, A, B) ==
    LET carried == get_carryover_values(context, A, B)
        written == [context EXCEPT ![BookingField(B)] = SetAttrs(@, carried)]
    IN get_carryover_values(written, B, A)

C17_CarryoverSymmetry ==
    \A A \in BookingIntents, B \in BookingIntents :
        A # B =>
            LET ab == CARRYOVER_SLOTS[<<A, B>>]
                ba == CARRYOVER_SLOTS[<<B, A>>]
                record == state.context[BookingField(A)]
            IN /\ DOMAIN ba = {ab[f] : f \in DOMAIN ab}
               /\ \A f \in DOMAIN ab : ba[ab[f]] = f
               /\ \A f \in DOMAIN ab :
                      record[f] # NONE =>
                         /\ f \in DOMAIN CarriedBack(state.context, A, B)
                         /\ CarriedBack(state.context, A, B)[f] = record[f]

\* the dates of an accommodation carried to the flight, and back
C17_Witness ==
    /\ call.op = "get_carryover_values"
    /\ call.from = "BOOK_ACCOMMODATION" /\ call.to = "BOOK_FLIGHT"
    /\ call.result = [departure_date |-> "2026-03-16", return_date |-> "2026-03-20"]
    /\ CarriedBack(state.context, "BOOK_ACCOMMODATION", "BOOK_FLIGHT")
          = [check_in_date |-> "2026-03-16", check_out_date |-> "2026-03-20"]

\* ------------------------------------------------------------------------
\* C18  mark_completed is idempotent.  After every call of
\* mark_completed(task), the first or a repeated one, the completed list
\* holds exactly one entry for the task and the completed flag of the
\* task's record is true.
\* ------------------------------------------------------------------------
C18_MarkCompletedIdempotent ==
    [][(call'.op = "mark_completed" /\ turns' # turns) =>
          /\ Cardinality({i \in DOMAIN state'.context.completed_intents :
                             state'.context.completed_intents[i] = call'.task}) = 1
          /\ call'.task \in BookingIntents =>
                state'.context[BookingField(call'.task)]["completed"] = PyTrue]_vars

\* three calls for the flight
C18_Witness ==
    /\ call.op = "mark_completed" /\ call.task = "BOOK_FLIGHT"
    /\ turns = 3
    /\ state.context.completed_intents = <<"BOOK_FLIGHT">>
    /\ state.context.flight["completed"] = PyTrue

\* ------------------------------------------------------------------------
\* C19  For each of the three booking records and every assignment of its
\* fields, missing_slots() is empty if and only if every required field is
\* not None; the optional return_date of a flight is never in the result.
\* ------------------------------------------------------------------------
C19_MissingSlots ==
    call.op = "missing_slots" =>
        LET record == state.context[BookingField(call.task)]
        IN /\ call.result = <<>> <=>
                 \A f \in Range(DeclaredRequired(call.task)) : record[f] # NONE
           /\ "return_date" \notin Range(call.result)

\* a flight without a return date and with an empty destination misses nothing
C19_Witness ==
    /\ call.op = "missing_slots" /\ call.task = "BOOK_FLIGHT"
    /\ call.result = <<>>
    /\ state.context.flight["return_date"] = NONE
    /\ state.context.flight["destination"] = ""

\* ------------------------------------------------------------------------
\* C20  Oracle failure.  When the call of the language model raises, or its
\* output cannot be parsed into a declared action, dm_decide returns
\* exactly the action that dm_decide_rule_based returns for the same
\* pre-turn state and the same input.
\* ------------------------------------------------------------------------
\* the language model raises or names no declared action
OracleFails ==
    \/ llm_response.kind = "raise"
    \/ llm_response.kind = "text" /\ llm_response.text \notin DM_ACTIONS
    \/ llm_response.kind = "json" /\ llm_response.action \notin DM_ACTIONS

C20_OracleFailure ==
    [][(pc = "dm" /\ OracleFails) =>
          action' = dm_decide_rule_based(state, nlu_output, user_utterance).action]_vars

\* ------------------------------------------------------------------------
\* C21  No skipped carryover offer.  On every turn where step 9 of the
\* deterministic engine would emit OFFER_SLOT_CARRYOVER for the same
\* pre-turn state and input, dm_decide with a language model returns
\* OFFER_SLOT_CARRYOVER, whatever the language model answered.
\* ------------------------------------------------------------------------
\* the deterministic engine would offer the carryover, and not as the
\* repetition of an offer whose answer was unclear (step 5)
Step9WouldOffer ==
    /\ pc = "dm"
    /\ dm_decide_rule_based(state, nlu_output, user_utterance).action = "OFFER_SLOT_CARRYOVER"
    /\ ~(state.last_action = "OFFER_SLOT_CARRYOVER"
         /\ _normalize_yes_no(TurnSlot("confirmation")) = NONE)

C21_MandatoryOffer ==
    [][Step9WouldOffer => action' = "OFFER_SLOT_CARRYOVER"]_vars

\* ------------------------------------------------------------------------
\* C22  Outbound set.  Every action dm_decide returns when a language model
\* is consulted, whatever the language model answered, is one of GOODBYE,
\* ASK_CLARIFICATION, REQUEST_MISSING_SLOT(<slot>), OFFER_SLOT_CARRYOVER,
\* ASK_CONFIRMATION, REQUEST_SLOT_CHANGE, the three completion actions and
\* COMPARE_CITIES_RESULT.
\* ------------------------------------------------------------------------
OutboundActions ==
    {"GOODBYE", "ASK_CLARIFICATION", "OFFER_SLOT_CARRYOVER", "ASK_CONFIRMATION",
     "REQUEST_SLOT_CHANGE", "COMPARE_CITIES_RESULT"}
    \cup CompletionActions \cup {Request(w) : w \in Words}

\* action = NONE: no call yet; action = RAISE: the call returned nothing
C22_OutboundSet == action \in {NONE, RAISE} \/ action \in OutboundActions

\* ------------------------------------------------------------------------
\* C23  Single application of side effects.  When dm_decide, consulting a
\* language model, substitutes the answer of the deterministic engine, the
\* state after the turn equals the state that one call of
\* dm_decide_rule_based produces from the same pre-turn state and input.
\* ------------------------------------------------------------------------
\* dm_decide hands the turn to the deterministic engine: the language model
\* gave no usable action, or it asked for a slot that is not plausible
DeterministicSubstituted ==
    LET parsed == LlmChoice(llm_response)
        prompt_state == StateForPrompt(state, nlu_output)
    IN \/ parsed.action = "ASK_CLARIFICATION"
       \/ /\ MatchesRequest(parsed.action)
          /\ ~get_missing_slots_raises(prompt_state)
          /\ RequestedSlot(parsed.action) \notin
                Range(to_summary(prompt_state).missing_slots)
                \cup {"city1", "city2", "activity_category"}
          /\ ~(state.pending_carryover # EmptyDict /\ ~state.awaiting_carryover_response)

C23_SingleApplication ==
    [][(pc = "dm" /\ DeterministicSubstituted /\ action' # RAISE) =>
          state' = dm_decide_rule_based(state, nlu_output, user_utterance).state]_vars

\* ------------------------------------------------------------------------
\* C24  IntentQueue is FIFO.  add puts its sentences behind the pending
\* ones in the order given, so that pop returns the sentences in the order
\* they were added, across several add calls; peek returns the sentence the
\* next pop will return and removes nothing; pop and peek on an empty queue
\* return None and leave it empty; has_pending is true exactly when the
\* queue is not empty.
\* ------------------------------------------------------------------------
\* a method of the queue was called in this step
QueueCalled(op) == turns' # turns /\ call'.op = op

C24_IntentQueueFifo ==
    [][/\ QueueCalled("add") => intent_queue' = intent_queue \o call'.sentences
       /\ QueueCalled("pop") =>
             IF intent_queue = <<>>
             THEN call'.result = NONE /\ intent_queue' = <<>>
             ELSE call'.result = Head(intent_queue) /\ intent_queue' = Tail(intent_queue)
       /\ QueueCalled("peek") =>
             /\ intent_queue' = intent_queue
             /\ call'.result = IF intent_queue = <<>> THEN NONE ELSE Head(intent_queue)
       /\ QueueCalled("has_pending") =>
             /\ intent_queue' = intent_queue
             /\ call'.result = (intent_queue # <<>>)
       /\ QueueCalled("clear") => intent_queue' = <<>>]_vars

\* two add calls, then the second pop: it returns the second sentence of the
\* first add and leaves the sentence of the second add
C24_Witness ==
    /\ pc = "queue" /\ turns = 4
    /\ call.op = "pop"
    /\ call.result = "find a hotel there"
    /\ intent_queue = <<"book a museum tour">>

\* ------------------------------------------------------------------------
\* C25  Unclear answers are no-ops.  When last_action is ASK_CONFIRMATION
\* (or OFFER_SLOT_CARRYOVER) and a booking-intent turn gives neither yes
\* nor no, the engine returns ASK_CONFIRMATION (or OFFER_SLOT_CARRYOVER)
\* again and the state does not change at all: last_action, the records,
\* the active task, the pending carryover and the offer flag are kept.
\* ------------------------------------------------------------------------
\* a booking-intent turn without a yes or a no, while an answer is awaited
UnclearAnswer ==
    /\ BookingTurn
    /\ state.last_action \in {"ASK_CONFIRMATION", "OFFER_SLOT_CARRYOVER"}
    /\ TurnSlot("confirmation") \notin YesAnswers \cup NoAnswers

OfferAnswered ==
    /\ BookingTurn
    /\ state.last_action = "OFFER_SLOT_CARRYOVER"
    /\ TurnSlot("confirmation") \in YesAnswers \cup NoAnswers

\* the records with the pending carryover written into the active one
RecordsWithCarryover(st) ==
    [f \in {"flight", "accommodation", "activity"} |->
        IF st.current_intent \in BookingIntents /\ f = BookingField(st.current_intent)
        THEN [a \in DOMAIN st.context[f] |->
                 IF a \in DOMAIN st.pending_carryover
                 THEN st.pending_carryover[a] ELSE st.context[f][a]]
        ELSE st.context[f]]

C26_AnswerSkipsStep7 ==
    [][(OfferAnswered /\ action' # RAISE) =>
          /\ state'.current_intent = state.current_intent
          /\ Records(state') = IF TurnSlot("confirmation") \in YesAnswers
                               THEN RecordsWithCarryover(state)
                               ELSE Records(state)]_vars

\* ------------------------------------------------------------------------
\* C27  Task switch (step 7).  When a booking-intent turn reaches step 7
\* with an intent different from the non-null active task, then after the
\* turn the active task is the new intent, confirmed is false, the turn's
\* slot values are in the new task's record and no other record is touched
\* by them, the action is no completion action, and pending_carryover is
\* the carryover from the old task to the new one
\*   - as claimed: whenever that carryover is non-empty;
\*   - as the code has it: whenever that carryover is non-empty and one of
\*     its fields is among the missing slots of the new record (a carryover
\*     of which no field is missing is discarded at step 9 of the same turn).
\* ------------------------------------------------------------------------
\* the state with which step 7 starts: after a yes or no to a carryover offer
BeforeStep7 ==
    IF state.last_action = "OFFER_SLOT_CARRYOVER"
    THEN CarryoverAnswer(state, _normalize_yes_no(TurnSlot("confirmation")))
    ELSE state

\* a booking-intent turn arrives at step 7 and names another task
SwitchAtStep7 ==
    /\ BookingTurn
    /\ PassesRules4To6
    /\ state.current_intent # NONE
    /\ TurnIntent # state.current_intent

\* computeCarryoverValues(oldTask, newIntent) at step 7
SwitchCarryover ==
    get_carryover_values(BeforeStep7.context, state.current_intent, TurnIntent)

TaskSwitchTurn(MustBePending(_)) ==
    (SwitchAtStep7 /\ action' # RAISE) =>
        /\ state'.current_intent = TurnIntent
        /\ ~state'.confirmed
        /\ (SwitchCarryover # EmptyDict /\ MustBePending(state'))
              => state'.pending_carryover = SwitchCarryover
        /\ \A k \in DOMAIN TurnSlots \cap DeclaredSlots(TurnIntent) :
              TurnSlots[k] # NONE =>
                  state'.context[BookingField(TurnIntent)][k] = TurnSlots[k]
        /\ \A f \in {"flight", "accommodation", "activity"} \ {BookingField(TurnIntent)} :
              state'.context[f] = BeforeStep7.context[f]
        /\ action' \notin CompletionActions

Always(st) == TRUE
CarryoverUseful(st) == \E k \in DOMAIN SwitchCarryover : k \in Range(MissingRequired(st))

ScenarioDSwitch ==
    /\ pc = "dm"
    /\ TurnIntent = "BOOK_ACCOMMODATION" /\ TurnSlots = EmptyDict
    /\ state.current_intent = "BOOK_FLIGHT"
    /\ state.last_action = "COMPLETE_FLIGHT_BOOKING"
    /\ state.context.flight["completed"] = PyTrue
    /\ state.context.flight["destination"] = "Paris"
    /\ state.context.flight["budget_level"] = "medium"
    /\ state.context.accommodation = AccommodationBooking
    /\ state.pending_carryover = EmptyDict

\* the turn after the switch: the carryover is pending and not yet offered
ScenarioDFollowing ==
    /\ pc = "dm"
    /\ TurnIntent = "BOOK_ACCOMMODATION" /\ TurnSlots = EmptyDict
    /\ state.current_intent = "BOOK_ACCOMMODATION"
    /\ state.context.accommodation = AccommodationBooking
    /\ state.pending_carryover # EmptyDict
    /\ ~state.awaiting_carryover_response
    /\ state.last_action \notin {"ASK_CONFIRMATION", "OFFER_SLOT_CARRYOVER",
                                  "REQUEST_SLOT_CHANGE"}

C28_OfferOnFollowingTurn ==
    [][/\ ScenarioDSwitch =>
             /\ action' # "OFFER_SLOT_CARRYOVER"
             /\ state'.pending_carryover # EmptyDict
             /\ ~state'.awaiting_carryover_response
       /\ ScenarioDFollowing => action' = "OFFER_SLOT_CARRYOVER"]_vars

\* ------------------------------------------------------------------------
\* C29  last_action is the returned action.  After every call of
\* dm_decide_rule_based, and after every call of dm_decide with a language
\* model, on every branch, state.last_action equals the action the call
\* returned.
\* ------------------------------------------------------------------------
\* action = NONE: no call yet; action = RAISE: the call returned nothing
C29_LastActionIsReturned == action \in {NONE, RAISE} \/ state.last_action = action

\* ASK_CONFIRMATION came from the language model although slots are
\* missing, and the no of the next turn was answered by the rules
C29_Witness ==
    /\ pc = "nlu" /\ turns = 2
    /\ action = "REQUEST_SLOT_CHANGE" /\ state.last_action = "REQUEST_SLOT_CHANGE"
    /\ state.current_intent \in BookingIntents
    /\ MissingRequired(state) # <<>>

\* ------------------------------------------------------------------------
\* C30  Direct correction after a denial.  When last_action is
\* REQUEST_SLOT_CHANGE and the turn gives a new value for a slot of the
\* active task without a slot_name, the engine writes the new value into
\* the record and, all required slots being filled, returns
\* ASK_CONFIRMATION.
\* ------------------------------------------------------------------------
\* the slots of the active task to which the turn gives a value
CorrectedSlots ==
    {k \in DOMAIN TurnSlots \cap DeclaredSlots(TurnIntent) : TurnSlots[k] \notin {NONE, ""}}

\* after a denial the turn names new values and no slot_name
DirectCorrection ==
    /\ BookingTurn
    /\ state.last_action = "REQUEST_SLOT_CHANGE"
    /\ TurnIntent = state.current_intent
    /\ TurnSlot("slot_name") = NONE
    /\ CorrectedSlots # {}

C30_DirectCorrection ==
    [][DirectCorrection =>
          /\ \A k \in CorrectedSlots :
                state'.context[BookingField(TurnIntent)][k] = TurnSlots[k]
          /\ MissingRequired(state') = <<>> => action' = "ASK_CONFIRMATION"]_vars

\* ------------------------------------------------------------------------
\* C31  Ending a dialogue through the pipeline.  When the JSON object the
\* language model gives nlu_parse names the intent END_DIALOGUE, the turn's
\* action is GOODBYE and the command-line loop ends on that turn.
\* ------------------------------------------------------------------------
\* the NLU model's answer of this turn names END_DIALOGUE
NluNamesEndDialogue ==
    /\ call.op = "nlu_parse"
    /\ call.answer.kind = "json"
    /\ call.answer.intent = "END_DIALOGUE"

C31_EndDialoguePipeline ==
    [][(pc = "dm" /\ NluNamesEndDialogue) => (action' = "GOODBYE" /\ pc' = "done")]_vars

\* ------------------------------------------------------------------------
\* C32  The advisory path cannot bypass the completion gate.  Whatever the
\* language model answers, dm_decide returns a completion action, or marks
\* a record completed, only for the active task named by the action, only
\* when that task's record misses no required slot, and only when the user
\* answered yes to the ASK_CONFIRMATION of that task.
\* ------------------------------------------------------------------------
\* the user answers yes to the ASK_CONFIRMATION of the active task: by the
\* confirmation slot, or by the confirmation the language model inferred
UserConfirms ==
    /\ state.last_action = "ASK_CONFIRMATION"
    /\ \/ TurnSlot("confirmation") \in YesAnswers
       \/ /\ llm_response.kind = "json"
          /\ Get(llm_response.meta, "inferred_confirmation") = "yes"

\* the gate of the completion act for task
CompletionGate(task, act) ==
    /\ state'.current_intent = task
    /\ state.current_intent = task
    /\ act = CompletionOf(task)
    /\ MissingRequired(state') = <<>>
    /\ UserConfirms

\* the call marks the record of task completed
MarksCompleted(task) ==
    /\ ~Truthy(state.context[BookingField(task)]["completed"])
    /\ Truthy(state'.context[BookingField(task)]["completed"])

C32_CompletionGate ==
    [][pc = "dm" =>
          /\ action' \in CompletionActions =>
                \E task \in BookingIntents : CompletionGate(task, action')
          /\ \A task \in BookingIntents :
                MarksCompleted(task) =>
                    /\ action' \in CompletionActions
                    /\ CompletionGate(task, action')]_vars

\* ------------------------------------------------------------------------
\* C33  In every reachable state of the deterministic engine,
\* awaiting_carryover_response is true only while last_action is
\* OFFER_SLOT_CARRYOVER and pending_carryover is non-empty: an offer that an
\* END_DIALOGUE, unknown or COMPARE_CITIES turn interrupts does not leave
\* the flag set.
\* ------------------------------------------------------------------------
C33_AwaitingOnlyWhileOffered ==
    state.awaiting_carryover_response =>
        /\ state.last_action = "OFFER_SLOT_CARRYOVER"
        /\ state.pending_carryover # EmptyDict

\* ------------------------------------------------------------------------
\* C34  Pending carryover belongs to the current switch.  Whenever
\* pending_carryover is non-empty while a booking task is active, it is the
\* map computed at the most recent switch into that task: a turn that
\* changes the active task leaves the map it computed at this switch from
\* the record of the task it leaves, and a turn that keeps the active task
\* keeps the map.
\* ------------------------------------------------------------------------
C34_PendingBelongsToSwitch ==
    [][(/\ pc = "dm"
        /\ action' # RAISE
        /\ state'.current_intent \in BookingIntents
        /\ state'.pending_carryover # EmptyDict) =>
          IF state'.current_intent # state.current_intent
          THEN /\ state.current_intent \in BookingIntents
               /\ state'.pending_carryover = SwitchCarryover
          ELSE state'.pending_carryover = state.pending_carryover]_vars

\* ------------------------------------------------------------------------
\* C35  Accepting a carryover offer writes only fields of the active record
\* that were null before the acceptance: a value the user already supplied
\* for the active task is not replaced by a carried-over value.
\* ------------------------------------------------------------------------
\* the user answers yes to the carryover offer of the active task
OfferAccepted ==
    /\ BookingTurn
    /\ state.last_action = "OFFER_SLOT_CARRYOVER"
    /\ state.current_intent \in BookingIntents
    /\ TurnSlot("confirmation") \in YesAnswers

\* the slots of the active record that held a value before the acceptance
SuppliedSlots ==
    {k \in DeclaredSlots(state.current_intent) :
        state.context[BookingField(state.current_intent)][k] # NONE}

C35_AcceptanceFillsNullsOnly ==
    [][OfferAccepted =>
          \A k \in SuppliedSlots :
              BeforeStep7.context[BookingField(state.current_intent)][k]
                  = state.context[BookingField(state.current_intent)][k]]_vars

\* ------------------------------------------------------------------------
\* C36  No unconfirmed value is booked.  When the engine emits a completion
\* action for a task, every slot of the task's record has the value it had
\* when the user last answered yes to an ASK_CONFIRMATION of that task.
\* Step by step: the turn that emits a completion action is the yes answer
\* to the task's ASK_CONFIRMATION, or the record is already completed; in
\* both cases the turn changes no slot of the task's record.
\* ------------------------------------------------------------------------
\* the slot values of the record of task in st
SlotsOfRecord(st, task) ==
    [k \in DeclaredSlots(task) |-> st.context[BookingField(task)][k]]

\* the turn answers yes to the ASK_CONFIRMATION of task
ConfirmsTask(task) ==
    /\ state.last_action = "ASK_CONFIRMATION"
    /\ state.current_intent = task
    /\ TurnSlot("confirmation") \in YesAnswers

C36_NoUnconfirmedValueBooked ==
    [][(pc = "dm" /\ action' \in CompletionActions) =>
          \E task \in BookingIntents :
              /\ action' = CompletionOf(task)
              /\ SlotsOfRecord(state', task) = SlotsOfRecord(state, task)
              /\ \/ ConfirmsTask(task)
                 \/ Truthy(state.context[BookingField(task)]["completed"])]_vars

\* ------------------------------------------------------------------------
\* C37  In every reachable state with last_action = ASK_CONFIRMATION the
\* active task is one of the three booking tasks and its record misses no
\* required slot; a yes that reaches step 4 returns a completion action,
\* never the ASK_CLARIFICATION fallback of _get_complete_action, and the
\* completed list holds booking task identifiers only.
\* ------------------------------------------------------------------------
\* the state awaits the answer to a confirmation question that can be completed
ConfirmationWellFormed ==
    /\ state.last_action = "ASK_CONFIRMATION" =>
          /\ state.current_intent \in BookingIntents
          /\ MissingRequired(state) = <<>>
    /\ Range(state.context.completed_intents) \subseteq BookingIntents

\* a yes that reaches step 4
YesAtStep4 ==
    /\ BookingTurn
    /\ state.last_action = "ASK_CONFIRMATION"
    /\ TurnSlot("confirmation") \in YesAnswers

C37_ConfirmationWellFormed ==
    /\ []ConfirmationWellFormed
    /\ [][YesAtStep4 => action' \in CompletionActions]_vars

C37_Witness ==
    /\ state.last_action = CompletionOf("BOOK_ACCOMMODATION")
    /\ state.context.completed_intents = <<"BOOK_ACCOMMODATION">>
    /\ state.context.flight["destination"] # NONE

\* ------------------------------------------------------------------------
\* C38  Record isolation.  One turn of the deterministic engine changes the
\* slots of at most one booking record, the record of the task that is
\* active after the turn; a COMPARE_CITIES, END_DIALOGUE or unknown-intent
\* turn changes no booking record, and a booking-intent turn does not
\* change the compare scratch map.
\* ------------------------------------------------------------------------
\* the tasks whose record has a slot changed by the step
ChangedRecords ==
    {task \in BookingIntents : SlotsOfRecord(state', task) # SlotsOfRecord(state, task)}

C38_RecordIsolation ==
    [][pc = "dm" =>
          /\ ChangedRecords \subseteq {state'.current_intent}
          /\ TurnIntent \notin BookingIntents => ChangedRecords = {}
          /\ TurnIntent \in BookingIntents =>
                state'.compare_cities_data = state.compare_cities_data]_vars

\* ------------------------------------------------------------------------
\* C39  Cooperative progress.  From a fresh state, when every turn carries
\* the same booking intent, gives a value to the slot the previous
\* REQUEST_MISSING_SLOT named and answers yes after ASK_CONFIRMATION, the
\* engine emits the task's completion action within (number of required
\* slots + 2) turns and emits neither ASK_CLARIFICATION nor
\* REQUEST_SLOT_CHANGE on the way.
\* ------------------------------------------------------------------------
C39_CooperativeProgress ==
    /\ action \notin {"ASK_CLARIFICATION", "REQUEST_SLOT_CHANGE", RAISE}
    /\ \A task \in BookingIntents :
          (state.current_intent = task /\ pc = "nlu"
           /\ turns >= Len(DeclaredRequired(task)) + 2)
              => CompletionOf(task) \in completions

\* a flight is completed on the seventh turn, after one request per required slot
C39_Witness ==
    /\ turns = 7
    /\ action = "COMPLETE_FLIGHT_BOOKING"
    /\ completions = {"COMPLETE_FLIGHT_BOOKING"}

\* ------------------------------------------------------------------------
\* C40  No user input is lost in the command-line loop.  With the splitter
\* enabled, every non-empty line the user types is handed to the NLU and
\* the engine on that iteration, as itself or as the first sentence of its
\* split, also when the intent queue still holds sentences of an earlier
\* line.
\* ------------------------------------------------------------------------
\* what the iteration may process for the typed line: the line, or the first
\* sentence split_intents returns for it
CurrentInputsOf(user) ==
    IF has_multiple_intents(user)
    THEN {split_intents(user, answer).current : answer \in SplitAnswers}
    ELSE {user}

C40_NoInputLost ==
    [][pc = "split" => user_utterance' \in CurrentInputsOf(user_utterance)]_vars

====
